---- MODULE Spec2Model ----
(***************************************************************************)
(* A model of the Google Drive batch replicator (src/gdrive_batch.py):     *)
(* the backoff-retry wrapper, the existence cache, copy_file and the       *)
(* recursive traversal process_folder_recursive with its item budget and   *)
(* its progress log.                                                       *)
(*                                                                         *)
(* Modelling decisions:                                                    *)
(*  - the remote store is a set of entries; a remote call either succeeds  *)
(*    or fails, and a failing copy or upload may still have created the    *)
(*    file ("ghost"), the case copy_file's re-queries exist for;           *)
(*  - inside the replicator a remote call stands for the call as wrapped   *)
(*    by retry_with_exponential_backoff: its failure is the failure the    *)
(*    wrapper propagates.  The wrapper itself is modelled step by step     *)
(*    under SpecRetry;                                                     *)
(*  - file names and folder names are disjoint, and the names within one   *)
(*    source folder are distinct;                                          *)
(*  - sleeps of the replicator (file_delay, batch_delay) change no state   *)
(*    and are left out;                                                    *)
(*  - the destination folders of the replicator's runs hold at most        *)
(*    PageSize entries (FoldersFitOnePage), so the one response that       *)
(*    check_file_exists reads holds the whole folder; folders larger than  *)
(*    a page are looked up under SpecLookup.                               *)
(***************************************************************************)
EXTENDS Integers, Sequences, FiniteSets, TLC

VARIABLES
    srcSize,      \* source file id -> size in bytes ('size' of the listing)
    store,        \* the destination side of the remote store: a set of entries
    nextId,       \* the id the remote store gives to the next created entry
    cache,        \* file_cache of main: dest folder id -> (name -> entry)
    log,          \* the progress file: a sequence of <<item id, status>>
    stack,        \* the call stack of process_folder_recursive (top = last)
    phase,        \* "idle" | "running" | "done": where main is
    run,          \* number of runs started so far
    runsLeft,     \* runs that may still be started
    faults,       \* remote failures the environment may still inject
    menu,         \* "plain" | "fresh" | "any": the command lines a run may have
    params,       \* the command line of the current run
    result,       \* the summary the top-level call returned
    hist,         \* observations of the current run (history, read by no action)
    first,        \* observations of the previous run (history)
    last,         \* the last file step (history)
    main,         \* the process of main: its setup and its exit code
    retry,        \* the state of one wrapped call of retry_with_exponential_backoff
    scan,         \* the state of one scan of diff_gdrive.py
    cmp,          \* the state of one comparison of diff_gdrive.py
    direct,       \* the state of one copy_folder_structure of gdrive_direct.py
    inter         \* the state of one copy of gdrive_interactive.py

vars == <<srcSize, store, nextId, cache, log, stack, phase, run, runsLeft,
          faults, menu, params, result, hist, first, last, main, retry, scan,
          cmp, direct, inter>>

replVars == <<srcSize, store, nextId, cache, log, stack, phase, run, runsLeft,
              faults, menu, params, result, hist, first, last, main>>

(* all but the states of gdrive_direct.py and gdrive_interactive.py *)
batchVars == <<replVars, retry, scan, cmp>>

----------------------------------------------------------------------------
(* Bounds of the model *)

MaxSize == 1        \* file sizes are 0..MaxSize
MaxItems == 2       \* --max-items is absent or 0..MaxItems
MaxFaults == 2      \* remote failures injected in one behaviour
MaxRetries == 3     \* --max-retries is 0..MaxRetries
PageSize == 4       \* entries in one page of a listing (pageSize=1000, scaled)

Sizes == 0..MaxSize

(* Program constants *)

NoLimit == -1       \* max_items=None
BatchSize == 5      \* --batch-size default
DelayCap == 600     \* min(delay * factor, 600)

----------------------------------------------------------------------------
(* The source side of the remote store holds two trees a run may be given  *)
(* as --source: A/{s1/{g1,g2}, s2/{h1}, f1}, with ids equal to the folder   *)
(* names, and a folder named A with id "r": A/{sub/{y.bin}, x.txt}          *)

SrcRoot == "A"
SrcFolderIds == {"A", "s1", "s2"}
SrcFileIds == {"g1", "g2", "h1", "f1"}
FreshRoot == "r"
FreshFolderIds == {"r", "sub"}
FreshFileIds == {"x", "y"}
SrcSubfolders == [f \in SrcFolderIds \cup FreshFolderIds |->
                    IF f = "A" THEN <<"s1", "s2">>
                    ELSE IF f = "r" THEN <<"sub">> ELSE <<>>]
SrcFilesOf == [f \in SrcFolderIds \cup FreshFolderIds |->
                 IF f = "A" THEN <<"f1">>
                 ELSE IF f = "s1" THEN <<"g1", "g2">>
                 ELSE IF f = "s2" THEN <<"h1">>
                 ELSE IF f = "r" THEN <<"x">>
                 ELSE <<"y">>]
SrcName == [i \in SrcFolderIds \cup SrcFileIds \cup FreshFolderIds \cup FreshFileIds |->
              IF i = "r" THEN "A"
              ELSE IF i = "x" THEN "x.txt"
              ELSE IF i = "y" THEN "y.bin"
              ELSE IF i \in SrcFolderIds \cup FreshFolderIds THEN i
              ELSE IF i = "g2" THEN "b" ELSE "a"]

Range(s) == {s[i] : i \in 1..Len(s)}

SrcParent(i) == CHOOSE f \in SrcFolderIds :
                  i \in Range(SrcSubfolders[f]) \cup Range(SrcFilesOf[f])

(* The destination: the folder given as --dest has id DestRoot. *)
DestRoot == 0
NoEntry == [id |-> -1, name |-> "", parent |-> -1, folder |-> FALSE, size |-> 0]

Entry(i, n, p, isFolder, sz) ==
    [id |-> i, name |-> n, parent |-> p, folder |-> isFolder, size |-> sz]

Children(st, p) == {e \in st : e.parent = p}

(* Which of several same-named entries a listing puts last (the one a     *)
(* name-keyed dict keeps) or first (items[0]) is the remote store's choice. *)
PickOf(S, pick) ==
    IF pick = "high"
    THEN CHOOSE e \in S : \A d \in S : d.id <= e.id
    ELSE CHOOSE e \in S : \A d \in S : d.id >= e.id

----------------------------------------------------------------------------
(* check_file_exists *)

(* files_dict of one listing of folder p: name -> item *)
FilesDict(st, p, pick) ==
    LET names == {e.name : e \in Children(st, p)}
    IN [n \in names |-> PickOf({e \in Children(st, p) : e.name = n}, pick)]

EmptyDict == [n \in {} |-> NoEntry]

(* the first page of the listing of a folder with entries S, in the order   *)
(* the remote store lists them (by id, upwards or downwards)                *)
FirstPage(S, pick) ==
    {e \in S : Cardinality({d \in S : IF pick = "high" THEN d.id < e.id
                                                      ELSE d.id > e.id})
                 < PageSize}

(* files_dict of the one response check_file_exists reads, lines 207-212:   *)
(* outcome "ok" is a response that holds the whole folder, "paged" one that *)
(* holds its first page (the folder is larger than a page), anything else a *)
(* call that raised                                                         *)
ListedDict(st, p, outcome, pick) ==
    IF outcome = "ok" THEN FilesDict(st, p, pick)
    ELSE IF outcome = "paged"
    THEN LET page == FirstPage(Children(st, p), pick)
         IN [n \in {e.name : e \in page} |->
               PickOf({e \in page : e.name = n}, pick)]
    ELSE EmptyDict

DictGet(d, n) == IF n \in DOMAIN d THEN d[n] ELSE NoEntry

(* a faulty variant of CacheFill: the folder is listed at every lookup *)
CacheFillAlways(st, ch, p, outcome, pick) ==
    [q \in DOMAIN ch \cup {p} |->
        IF q = p THEN ListedDict(st, p, outcome, pick) ELSE ch[q]]

(* The cache after check_file_exists(name, p, file_cache) made sure p is in it *)
CacheFill(st, ch, p, outcome, pick) ==
    IF p \in DOMAIN ch THEN ch
    ELSE [q \in DOMAIN ch \cup {p} |->
            IF q = p THEN ListedDict(st, p, outcome, pick) ELSE ch[q]]

(* check_file_exists(service, name, p, file_cache) with a cache *)
CheckFileExists(st, ch, name, p, outcome, pick) ==
    LET ch2 == CacheFill(st, ch, p, outcome, pick)
    IN [entry |-> DictGet(ch2[p], name), cache |-> ch2]

(* a faulty variant of CheckFileExistsFresh: the re-query finds nothing *)
CheckFileExistsBlind(st, name, p, outcome, pick) == NoEntry

(* check_file_exists(service, name, p, None): a cache of its own *)
CheckFileExistsFresh(st, name, p, outcome, pick) ==
    CheckFileExists(st, EmptyDict, name, p, outcome, pick).entry

Found(e) == e.id # -1

(* file_cache[parent_id][name] = entry, creating file_cache[parent_id] *)
CachePut(ch, p, name, e) ==
    LET old == IF p \in DOMAIN ch THEN ch[p] ELSE EmptyDict
        new == [n \in DOMAIN old \cup {name} |-> IF n = name THEN e ELSE old[n]]
    IN [q \in DOMAIN ch \cup {p} |-> IF q = p THEN new ELSE ch[q]]

(* del file_cache[parent_id][name] *)
CacheDel(ch, p, name) ==
    IF p \in DOMAIN ch /\ name \in DOMAIN ch[p]
    THEN [ch EXCEPT ![p] = [n \in DOMAIN ch[p] \ {name} |-> ch[p][n]]]
    ELSE ch

(* "Clear cache for this folder": file_cache[parent_id] = {} *)
CacheClear(ch, p) ==
    IF p \in DOMAIN ch THEN [ch EXCEPT ![p] = EmptyDict] ELSE ch

----------------------------------------------------------------------------
(* The remote calls of one copy_file, and what the environment makes of     *)
(* each: "ok", a failure, or for copy and upload a failure that created the *)
(* file all the same ("ghost"); "perm" is insufficientFilePermissions.      *)

CopySites == {"cacheList", "delete", "preList", "copy", "postList",
              "download", "upload", "altList", "finalList"}

CopyFaultKinds ==
    {<<"cacheList", "fail">>, <<"delete", "fail">>, <<"preList", "fail">>,
     <<"copy", "fail">>, <<"copy", "perm">>, <<"copy", "ghost">>,
     <<"postList", "fail">>, <<"download", "fail">>, <<"upload", "fail">>,
     <<"upload", "ghost">>, <<"altList", "fail">>, <<"finalList", "fail">>}

FaultSites(o, sites) == {s \in sites : o[s] # "ok"}

(* the order of a listing shows only where two entries of a folder share a  *)
(* name                                                                     *)
HasSameNamed(st) ==
    \E e \in st : \E d \in st : d.parent = e.parent /\ d.name = e.name /\ d.id # e.id

Picks(st) == IF HasSameNamed(st) THEN {"low", "high"} ELSE {"high"}

(* one more failure, at a call that has none yet *)
OneMoreFault(S, kinds) ==
    {[v[1] EXCEPT ![v[2][1]] = v[2][2]] :
        v \in {w \in S \X kinds : w[1][w[2][1]] = "ok"}}

(* a call copy_file cannot reach is given no failure: the re-query after a  *)
(* failed copy needs a failed copy, the fallback a permission failure       *)
Reachable(o) ==
    /\ o.postList # "ok" => o.copy # "ok"
    /\ o.download # "ok" => o.copy = "perm"
    /\ o.upload # "ok" => o.copy = "perm" /\ o.download = "ok"
    /\ o.altList # "ok" => o.copy = "perm" /\ ~(o.download = "ok" /\ o.upload = "ok")
    /\ o.finalList # "ok" => o.copy \in {"fail", "ghost"}

AllOkCopy(pick) ==
    [cacheList |-> "ok", delete |-> "ok", preList |-> "ok", copy |-> "ok",
     postList |-> "ok", download |-> "ok", upload |-> "ok", altList |-> "ok",
     finalList |-> "ok", pick |-> pick]

RECURSIVE CopyOutcomesRec(_, _)
CopyOutcomesRec(k, st) ==
    IF k = 0 THEN {AllOkCopy(pk) : pk \in Picks(st)}
    ELSE LET prev == CopyOutcomesRec(k - 1, st)
         IN prev \cup OneMoreFault(prev, CopyFaultKinds)

(* the outcomes of the calls of one copy_file with at most k failures *)
CopyOutcomes(k, st) == {o \in CopyOutcomesRec(k, st) : Reachable(o)}

CopyResult(status, reason, st, nid, ch, ex, atCopy) ==
    [status |-> status, reason |-> reason, store |-> st, nextId |-> nid,
     cache |-> ch, ex |-> ex, atCopy |-> atCopy]

(* the file a successful copy or upload creates under p *)
NewFile(nid, name, p, fsz) == Entry(nid, name, p, FALSE, fsz)

(* "existing_size == file_size and file_size > 0" *)
SameSize(e, fsz) == e.size = fsz /\ fsz > 0

(* "if existing_size > 0" of the re-queries after a failure *)
Qualifies(e) == e.size > 0

(* a faulty variant of IsPermission: every failed copy falls back *)
IsPermissionAny(copy) == TRUE

(* line 318: "insufficientFilePermissions" in str(e) *)
IsPermission(copy) == copy = "perm"

(* copy_file, the except branch: the copy raised; st is the store after it *)
CopyFailed(st, nid, ch, name, fsz, p, o, ex, atCopy) ==
    LET post == CheckFileExistsFresh(st, name, p, o.postList, o.pick)
        ex1 == ex \cup {"postList"}
    IN IF Found(post) /\ Qualifies(post)
       THEN CopyResult("copied", "already_exists", st, nid,
                       CachePut(ch, p, name, post), ex1, atCopy)
       ELSE IF IsPermission(o.copy)
       THEN LET dlok == o.download = "ok"
                upl == IF dlok THEN o.upload ELSE "none"
                made == upl \in {"ok", "ghost"}
                st2 == IF made THEN st \cup {NewFile(nid, name, p, fsz)} ELSE st
                nid2 == IF made THEN nid + 1 ELSE nid
                ex2 == ex1 \cup {"download"} \cup (IF dlok THEN {"upload"} ELSE {})
            IN IF upl = "ok"
               THEN CopyResult("uploaded", "", st2, nid2, CacheClear(ch, p), ex2, atCopy)
               ELSE LET alt == CheckFileExistsFresh(st2, name, p, o.altList, o.pick)
                        ex3 == ex2 \cup {"altList"}
                    IN IF Found(alt) /\ Qualifies(alt)
                       THEN CopyResult("uploaded", "already_exists", st2, nid2,
                                       CachePut(ch, p, name, alt), ex3, atCopy)
                       ELSE CopyResult("error", "alt_method_failed", st2, nid2,
                                       ch, ex3, atCopy)
       ELSE LET fin == CheckFileExistsFresh(st, name, p, o.finalList, o.pick)
                ex2 == ex1 \cup {"finalList"}
            IN IF Found(fin)
               THEN CopyResult("copied", "found_after_error", st, nid,
                               CachePut(ch, p, name, fin), ex2, atCopy)
               ELSE CopyResult("error", "copy_failed", st, nid, ch, ex2, atCopy)

(* copy_file(service, file_id, name, parent_id, file_size, file_cache) *)
CopyFile(st, nid, ch, name, fsz, p, o) ==
    LET c1 == CheckFileExists(st, ch, name, p, o.cacheList, o.pick)
        ex0 == IF p \in DOMAIN ch THEN {} ELSE {"cacheList"}
        existing == c1.entry
    IN IF Found(existing) /\ SameSize(existing, fsz)
       THEN CopyResult("skipped", "same_size", st, nid, c1.cache, ex0, st)
       ELSE IF Found(existing) /\ ~(o.delete = "ok" /\ existing \in st)
       THEN CopyResult("error", "delete_failed", st, nid, c1.cache,
                       ex0 \cup {"delete"}, st)
       ELSE LET st2 == IF Found(existing) THEN st \ {existing} ELSE st
                ch2 == IF Found(existing) THEN CacheDel(c1.cache, p, name)
                       ELSE c1.cache
                ex1 == IF Found(existing) THEN ex0 \cup {"delete"} ELSE ex0
                pre == CheckFileExistsFresh(st2, name, p, o.preList, o.pick)
                ex2 == ex1 \cup {"preList"}
            IN IF Found(pre) /\ SameSize(pre, fsz)
               THEN CopyResult("copied", "already_exists", st2, nid,
                               CachePut(ch2, p, name, pre), ex2, st2)
               ELSE IF o.copy = "ok"
               THEN CopyResult("copied", "", st2 \cup {NewFile(nid, name, p, fsz)},
                               nid + 1, CacheClear(ch2, p), ex2 \cup {"copy"}, st2)
               ELSE IF o.copy = "ghost"
               THEN CopyFailed(st2 \cup {NewFile(nid, name, p, fsz)}, nid + 1, ch2,
                               name, fsz, p, o, ex2 \cup {"copy"}, st2)
               ELSE CopyFailed(st2, nid, ch2, name, fsz, p, o,
                               ex2 \cup {"copy"}, st2)

----------------------------------------------------------------------------
(* process_folder_recursive: the prologue of one call *)

FolderSites == {"existList", "create", "srcList"}

FolderFaultKinds ==
    {<<"existList", "fail">>, <<"create", "fail">>, <<"srcList", "fail">>}

AllOkFolder(pick) ==
    [existList |-> "ok", create |-> "ok", srcList |-> "ok", pick |-> pick]

RECURSIVE FolderOutcomes(_, _)
(* the outcomes of the calls of one prologue with at most k failures *)
FolderOutcomes(k, st) ==
    IF k = 0 THEN {AllOkFolder(pk) : pk \in Picks(st)}
    ELSE LET prev == FolderOutcomes(k - 1, st)
         IN prev \cup OneMoreFault(prev, FolderFaultKinds)

NewSummary(max_items) ==
    [copied_files |-> 0, skipped_files |-> 0, replaced_files |-> 0,
     copied_folders |-> 0, total_copied_bytes |-> 0, errors |-> 0,
     total_items_processed |-> 0, remaining_items |-> max_items]

(* items[0] of the folder lookup: the first entry of the listing *)
FirstOf(S, pick) == PickOf(S, IF pick = "high" THEN "low" ELSE "high")

ExistingFolders(st, parent, name) ==
    {e \in Children(st, parent) : e.name = name /\ e.folder}

(* the destination folder of the call: reused, created, or none.  ans is    *)
(* the two answers typed at depth 0: sub ("Create a new subfolder?") and    *)
(* use ("Use existing folder?")                                             *)
ResolveDest(st, nid, destParent, name, depth, ans, o) ==
    LET lookup == depth > 0 \/ ans.sub
        cands == IF lookup /\ o.existList = "ok"
                 THEN ExistingFolders(st, destParent, name) ELSE {}
        reuse == cands # {} /\ (depth > 0 \/ ans.use)
        ex == (IF lookup THEN {"existList"} ELSE {})
              \cup (IF lookup /\ ~reuse THEN {"create"} ELSE {})
    IN IF ~lookup
       THEN [ok |-> TRUE, dest |-> destParent, store |-> st, nextId |-> nid,
             created |-> FALSE, ex |-> ex]
       ELSE IF reuse
       THEN [ok |-> TRUE, dest |-> FirstOf(cands, o.pick).id, store |-> st,
             nextId |-> nid, created |-> FALSE, ex |-> ex]
       ELSE IF o.create = "ok"
       THEN [ok |-> TRUE, dest |-> nid,
             store |-> st \cup {Entry(nid, name, destParent, TRUE, 0)},
             nextId |-> nid + 1, created |-> TRUE, ex |-> ex]
       ELSE [ok |-> FALSE, dest |-> -1, store |-> st, nextId |-> nid,
             created |-> FALSE, ex |-> ex]

(* get_folder_contents: a failed listing is an empty one *)
GetFolderContents(srcF, outcome) ==
    IF outcome = "ok"
    THEN [folders |-> SrcSubfolders[srcF], files |-> SrcFilesOf[srcF]]
    ELSE [folders |-> <<>>, files |-> <<>>]

(* "Load progress if resuming": the ids of the progress file *)
LoadProgress(lg, prm) ==
    IF prm.resume /\ prm.progress
    THEN {lg[i][1] : i \in 1..Len(lg)} ELSE {}

(* what the loop over folders does with a subfolder the log names *)
SkipLogged(fr, id) == id \in fr.processed

(* a faulty variant of FirstLoop: the files come first *)
FirstLoopFiles(empty) == IF empty THEN "ret" ELSE "files"

(* lines 539-563: an empty folder returns, any other goes to the loop over  *)
(* its subfolders, which comes before the loop over its files               *)
FirstLoop(empty) == IF empty THEN "ret" ELSE "folders"

(* the call's frame after lines 437-560; state "ret" is a call about to      *)
(* return.  listed: get_folder_contents was called; got: it returned the     *)
(* folder's items; createOver: create_folder was called while destParent     *)
(* held a folder of the name                                                 *)
Enter(st, nid, srcF, destParent, depth, max_items, prm, o, lg) ==
    LET base == [src |-> srcF, dest |-> -1, depth |-> depth, state |-> "ret",
                 fi |-> 1, ki |-> 1, folders |-> <<>>, files |-> <<>>,
                 processed |-> {}, max_items |-> max_items,
                 sum |-> NewSummary(max_items)]
    IN IF max_items # NoLimit /\ max_items <= 0
       THEN [frame |-> base, store |-> st, nextId |-> nid, ex |-> {},
             createFailed |-> FALSE, listed |-> FALSE, got |-> FALSE,
             createOver |-> FALSE]
       ELSE LET r == ResolveDest(st, nid, destParent, SrcName[srcF], depth,
                                 prm.ans, o)
                over == /\ "create" \in r.ex
                        /\ ExistingFolders(st, destParent, SrcName[srcF]) # {}
            IN IF ~r.ok
               THEN [frame |-> [base EXCEPT !.sum.errors = 1], store |-> r.store,
                     nextId |-> r.nextId, ex |-> r.ex, createFailed |-> TRUE,
                     listed |-> FALSE, got |-> FALSE, createOver |-> over]
               ELSE LET items == GetFolderContents(srcF, o.srcList)
                        empty == Len(items.folders) + Len(items.files) = 0
                        fr == [base EXCEPT
                                 !.dest = r.dest,
                                 !.state = FirstLoop(empty),
                                 !.folders = items.folders,
                                 !.files = items.files,
                                 !.processed = IF empty THEN {}
                                               ELSE LoadProgress(lg, prm),
                                 !.sum.copied_folders = IF r.created THEN 1 ELSE 0]
                    IN [frame |-> fr, store |-> r.store, nextId |-> r.nextId,
                        ex |-> r.ex \cup {"srcList"}, createFailed |-> FALSE,
                        listed |-> TRUE, got |-> o.srcList = "ok",
                        createOver |-> over]

(* lines 573-577 and 626-630: remaining_items as the budget check leaves it *)
Remaining(fr) ==
    IF fr.max_items = NoLimit THEN fr.sum.remaining_items
    ELSE fr.max_items - fr.sum.total_items_processed

BudgetSpent(fr) == fr.max_items # NoLimit /\ Remaining(fr) <= 0

(* a faulty variant of FoldSummary: the subfolder's errors are dropped *)
FoldSummaryNoErrors(sum, sub) ==
    [sum EXCEPT
       !.copied_files = @ + sub.copied_files,
       !.skipped_files = @ + sub.skipped_files,
       !.replaced_files = @ + sub.replaced_files,
       !.copied_folders = @ + sub.copied_folders,
       !.total_copied_bytes = @ + sub.total_copied_bytes,
       !.total_items_processed = @ + 1 + sub.total_items_processed]

(* a faulty variant of FoldSummary: the subfolder itself is not counted *)
FoldSummaryNoItem(sum, sub) ==
    [sum EXCEPT
       !.copied_files = @ + sub.copied_files,
       !.skipped_files = @ + sub.skipped_files,
       !.replaced_files = @ + sub.replaced_files,
       !.copied_folders = @ + sub.copied_folders,
       !.total_copied_bytes = @ + sub.total_copied_bytes,
       !.errors = @ + sub.errors,
       !.total_items_processed = @ + sub.total_items_processed]

(* lines 588-595: the parent's summary after a subfolder's call returned *)
FoldSummary(sum, sub) ==
    [sum EXCEPT
       !.copied_files = @ + sub.copied_files,
       !.skipped_files = @ + sub.skipped_files,
       !.replaced_files = @ + sub.replaced_files,
       !.copied_folders = @ + sub.copied_folders,
       !.total_copied_bytes = @ + sub.total_copied_bytes,
       !.errors = @ + sub.errors,
       !.total_items_processed = @ + 1 + sub.total_items_processed]

(* a faulty variant of UpdateSummary: the bytes of a copy are not counted *)
UpdateSummaryNoBytes(sum, status, fsz) ==
    LET s == IF status \in {"copied", "uploaded"}
             THEN [sum EXCEPT !.copied_files = @ + 1]
             ELSE IF status = "skipped"
             THEN [sum EXCEPT !.skipped_files = @ + 1]
             ELSE [sum EXCEPT !.errors = @ + 1]
    IN [s EXCEPT !.total_items_processed = @ + 1]

(* lines 636-649: the summary after copy_file returned status *)
UpdateSummary(sum, status, fsz) ==
    LET s == IF status \in {"copied", "uploaded"}
             THEN [sum EXCEPT !.copied_files = @ + 1,
                              !.total_copied_bytes = @ + fsz]
             ELSE IF status = "skipped"
             THEN [sum EXCEPT !.skipped_files = @ + 1]
             ELSE [sum EXCEPT !.errors = @ + 1]
    IN [s EXCEPT !.total_items_processed = @ + 1]

(* the index of the file the loops of lines 609-615 reach after a break: the *)
(* first file of the next batch                                              *)
AfterBreak(ki, n) ==
    LET nextBatch == (((ki - 1) \div BatchSize) + 1) * BatchSize + 1
    IN IF nextBatch > n THEN n + 1 ELSE nextBatch

(* a faulty variant of AfterFile: an error leaves the batch *)
AfterFileAbort(ki, status) ==
    IF status = "error" THEN ki + BatchSize ELSE ki + 1

(* the index of the file the loop goes on with after copy_file returned *)
AfterFile(ki, status) == ki + 1

(* a faulty variant of SaveProgress: a failed file leaves no record *)
SaveProgressOnSuccess(lg, prm, id, status) ==
    IF prm.progress /\ status # "error" THEN Append(lg, <<id, status>>) ELSE lg

(* "Save progress": one record appended when a progress file is given *)
SaveProgress(lg, prm, id, status) ==
    IF prm.progress THEN Append(lg, <<id, status>>) ELSE lg

----------------------------------------------------------------------------
(* The command line of a run, and the answers typed at the root prompts *)

Answers == {[sub |-> FALSE, use |-> FALSE],   \* "n": copy into --dest itself
            [sub |-> TRUE, use |-> TRUE],     \* "y", and "y" to an existing one
            [sub |-> TRUE, use |-> FALSE]}    \* "y", and "n": always create

(* --progress-file and --resume; --resume without a progress file resumes   *)
(* nothing and is left out                                                  *)
ProgressModes == {[progress |-> FALSE, resume |-> FALSE],
                  [progress |-> TRUE, resume |-> FALSE],
                  [progress |-> TRUE, resume |-> TRUE]}

MakeParams(m, pm, a) ==
    [source |-> SrcRoot, max_items |-> m, progress |-> pm.progress,
     resume |-> pm.resume, ans |-> a]

AnyParams == {MakeParams(m, pm, a) :
                m \in {NoLimit} \cup 0..MaxItems, pm \in ProgressModes, a \in Answers}

PlainParams == {MakeParams(NoLimit, [progress |-> FALSE, resume |-> FALSE], a) :
                  a \in Answers}

(* a plain run over the tree with id FreshRoot *)
FreshParams == {[p EXCEPT !.source = FreshRoot] : p \in PlainParams}

(* a run with a progress file, unlimited or halted after one item *)
LoggedParams == {p \in AnyParams : p.progress /\ p.max_items \in {NoLimit, 1}}

Menu(m) == IF m = "plain" THEN PlainParams
           ELSE IF m = "fresh" THEN FreshParams
           ELSE IF m = "logged" THEN LoggedParams ELSE AnyParams

NoParams == MakeParams(NoLimit, [progress |-> FALSE, resume |-> FALSE],
                       [sub |-> FALSE, use |-> FALSE])

----------------------------------------------------------------------------
(* History: what a run did, kept for the properties only *)

EmptyHist ==
    [invoked |-> {}, errFiles |-> {}, entered |-> {}, listed |-> {}, got |-> {},
     createFailed |-> {}, nCopy |-> 0, nDelete |-> 0, nCreate |-> 0,
     nUpload |-> 0, nDownload |-> 0, copyOverOld |-> FALSE, mutated |-> {},
     rootDest |-> -1, startLog |-> {}, used |-> 0, listedFor |-> <<>>,
     createOver |-> {}, made |-> {}]

NoLast ==
    [valid |-> FALSE, file |-> "", parent |-> -1, destState |-> "absent",
     status |-> "", reason |-> "", dCopied |-> 0, dSkipped |-> 0,
     dReplaced |-> 0, dErrors |-> 0, changed |-> FALSE, used |-> 0,
     continues |-> FALSE, hit |-> FALSE, cached |-> NoEntry,
     raised |-> FALSE, ex |-> {}, o |-> AllOkCopy("high"), atCopy |-> {}]

NoFirst == [valid |-> FALSE, params |-> NoParams, hist |-> EmptyHist,
            result |-> NewSummary(NoLimit)]

Count(b) == IF b THEN 1 ELSE 0

(* how the destination folder p stands to a source file before it is processed *)
DestState(st, p, name, fsz) ==
    LET same == {e \in Children(st, p) : e.name = name /\ ~e.folder}
    IN IF same = {} THEN "absent"
       ELSE IF \A e \in same : e.size = fsz THEN "same" ELSE "diff"

(* history after the prologue e of the call for source folder f *)
HistEnter(h, f, e) ==
    [h EXCEPT
       !.entered = @ \cup {f},
       !.listed = @ \cup (IF e.listed THEN {f} ELSE {}),
       !.got = @ \cup (IF e.got THEN {f} ELSE {}),
       !.createFailed = @ \cup (IF e.createFailed THEN {f} ELSE {}),
       !.createOver = @ \cup (IF e.createOver THEN {f} ELSE {}),
       !.nCreate = @ + Count("create" \in e.ex)]

----------------------------------------------------------------------------
(* The steps of process_folder_recursive *)

Top == stack[Len(stack)]

ReplaceTop(stk, fr) == [stk EXCEPT ![Len(stk)] = fr]

NoCopy(st, nid, ch) == CopyResult("none", "", st, nid, ch, {}, st)

(* lines 563-586: one pass of the loop over the subfolders *)
FolderStepResult(stk, st, nid, lg, prm, o) ==
    LET fr == stk[Len(stk)]
        none == [store |-> st, nextId |-> nid, ex |-> {}, called |-> FALSE,
                 createFailed |-> FALSE, listed |-> FALSE, got |-> FALSE,
                 createOver |-> FALSE]
    IN IF fr.fi > Len(fr.folders)
       THEN [stack |-> ReplaceTop(stk, [fr EXCEPT !.state = "files"])] @@ none
       ELSE IF SkipLogged(fr, fr.folders[fr.fi])
       THEN [stack |-> ReplaceTop(stk, [fr EXCEPT !.fi = @ + 1])] @@ none
       ELSE IF BudgetSpent(fr)
       THEN [stack |-> ReplaceTop(stk, [fr EXCEPT
                                          !.sum.remaining_items = Remaining(fr),
                                          !.state = "files"])] @@ none
       ELSE LET e == Enter(st, nid, fr.folders[fr.fi], fr.dest, fr.depth + 1,
                           Remaining(fr), prm, o, lg)
                fr2 == [fr EXCEPT !.sum.remaining_items = Remaining(fr)]
            IN [stack |-> Append(ReplaceTop(stk, fr2), e.frame),
                store |-> e.store, nextId |-> e.nextId, ex |-> e.ex,
                called |-> TRUE, createFailed |-> e.createFailed,
                listed |-> e.listed, got |-> e.got, createOver |-> e.createOver]

(* lines 615-654: one pass of the loops over the files *)
FileStepResult(fr, st, nid, ch, lg, prm, o) ==
    LET none == [log |-> lg, called |-> FALSE, c |-> NoCopy(st, nid, ch)]
    IN IF fr.ki > Len(fr.files)
       THEN [frame |-> [fr EXCEPT !.state = "ret"]] @@ none
       ELSE IF fr.files[fr.ki] \in fr.processed
       THEN [frame |-> [fr EXCEPT !.ki = @ + 1]] @@ none
       ELSE IF BudgetSpent(fr)
       THEN [frame |-> [fr EXCEPT !.sum.remaining_items = Remaining(fr),
                                  !.ki = AfterBreak(@, Len(fr.files))]] @@ none
       ELSE LET id == fr.files[fr.ki]
                c == CopyFile(st, nid, ch, SrcName[id], srcSize[id], fr.dest, o)
                fr2 == [fr EXCEPT
                          !.sum = UpdateSummary([@ EXCEPT !.remaining_items =
                                                     Remaining(fr)],
                                                c.status, srcSize[id]),
                          !.ki = AfterFile(@, c.status)]
            IN [frame |-> fr2, log |-> SaveProgress(lg, prm, id, c.status),
                called |-> TRUE, c |-> c]

----------------------------------------------------------------------------
(* retry_with_exponential_backoff: one wrapped call, one loop pass a step.  *)
(* Delays are whole seconds; jitter is in percent and sleep100 is the sleep *)
(* in hundredths of a second: delay * (100 + u) for a draw u of             *)
(* random.uniform(-jitter, jitter).                                         *)

(* what one invocation of the wrapped function does: it returns, or raises  *)
(* an HttpError (status, and whether str(e) holds "userRateLimitExceeded"), *)
(* or raises another exception                                              *)
OkOutcome == [ok |-> TRUE, http |-> FALSE, status |-> 0, marker |-> FALSE]
Raise(http, status, marker) ==
    [ok |-> FALSE, http |-> http, status |-> status, marker |-> marker]
RateLimited == Raise(TRUE, 403, TRUE)
CallOutcomes == {OkOutcome, RateLimited, Raise(TRUE, 403, FALSE),
                 Raise(TRUE, 429, TRUE), Raise(TRUE, 500, FALSE),
                 Raise(FALSE, 0, TRUE), Raise(FALSE, 0, FALSE)}

(* a faulty variant of IsRateLimit: every failure is retried *)
IsRateLimitAny(out) == ~out.ok

(* "e.resp.status == 403 and 'userRateLimitExceeded' in str(e)" *)
IsRateLimit(out) == ~out.ok /\ out.http /\ out.status = 403 /\ out.marker

InitialDelays == {1, 10, 600, 700}
Factors == {1, 2, 3}
Jitters == {0, 20}

Min(a, b) == IF a <= b THEN a ELSE b

RetryIdle ==
    [pc |-> "idle", max_retries |-> 0, initial_delay |-> 0, factor |-> 0,
     jitter |-> 0, retry_count |-> 0, delay |-> 0, calls |-> 0, sleeps |-> 0,
     sleep100 |-> 0, base |-> 0, lastOut |-> OkOutcome, allRate |-> TRUE]

(* the wrapper is entered: retry_count = 0, delay = initial_delay *)
RetryEnter(m, d, f, j) ==
    [RetryIdle EXCEPT !.pc = "running", !.max_retries = m, !.initial_delay = d,
                      !.factor = f, !.jitter = j, !.delay = d]

(* a faulty variant of Exhausted: off by one *)
ExhaustedEarly(retry_count, max_retries) == retry_count >= max_retries

(* "if retry_count > max_retries: raise" *)
Exhausted(retry_count, max_retries) == retry_count > max_retries

(* one pass of "while True": invoke func, then return, sleep or raise *)
RetryPass(r, out, u) ==
    LET called == [r EXCEPT !.calls = @ + 1, !.lastOut = out,
                            !.allRate = @ /\ out = RateLimited]
    IN IF out.ok THEN [called EXCEPT !.pc = "returned"]
       ELSE IF IsRateLimit(out)
       THEN IF Exhausted(r.retry_count + 1, r.max_retries)
            THEN [called EXCEPT !.pc = "raised", !.retry_count = @ + 1]
            ELSE [called EXCEPT !.retry_count = @ + 1,
                                !.sleeps = @ + 1,
                                !.base = r.delay,
                                !.sleep100 = r.delay * (100 + u),
                                !.delay = Min(r.delay * r.factor, DelayCap)]
       ELSE [called EXCEPT !.pc = "raised"]

RetryStart ==
    /\ retry.pc = "idle"
    /\ \E m \in 0..MaxRetries, d \in InitialDelays, f \in Factors, j \in Jitters :
         retry' = RetryEnter(m, d, f, j)
    /\ UNCHANGED <<replVars, scan, cmp, direct, inter>>

RetryInvoke ==
    /\ retry.pc = "running"
    /\ \E out \in CallOutcomes, u \in {-retry.jitter, 0, retry.jitter} :
         retry' = RetryPass(retry, out, u)
    /\ UNCHANGED <<replVars, scan, cmp, direct, inter>>

----------------------------------------------------------------------------
(* diff_gdrive.py: the scanner.  The tree scanned is T/{d1/{d3/{z.bin},     *)
(* u.TXT}, d2/{v.bin, w.bin}, p.txt, q}; the remote store returns the       *)
(* listing of T and of d2 in two pages; in a scan with twin names the file  *)
(* q is named p.txt like its sibling p.  The scanners of check_gdrive.py    *)
(* and gdrive_direct.py walk the tree by the same code and keep, in place   *)
(* of the file index, the list largest_files, which the stats carry too.    *)

ScanRoot == "T"
ScanFolderIds == {"T", "d1", "d2", "d3"}
ScanFileIds == {"p", "q", "u", "v", "w", "z"}
ScanPages == [f \in ScanFolderIds |->
                IF f = "T" THEN << <<"d1", "p">>, <<"d2", "q">> >>
                ELSE IF f = "d1" THEN << <<"d3", "u">> >>
                ELSE IF f = "d3" THEN << <<"z">> >>
                ELSE << <<"v">>, <<"w">> >>]
ScanName == [i \in ScanFolderIds \cup ScanFileIds |->
               IF i \in ScanFolderIds THEN i
               ELSE IF i = "p" THEN "p.txt"
               ELSE IF i = "q" THEN (IF scan.twin THEN "p.txt" ELSE "q")
               ELSE IF i = "u" THEN "u.TXT"
               ELSE IF i = "v" THEN "v.bin"
               ELSE IF i = "w" THEN "w.bin" ELSE "z.bin"]

(* "file_name.split('.')[-1].lower() if '.' in file_name else 'none'" for   *)
(* the names of the tree                                                    *)
ExtOf(name) ==
    IF name = "q" THEN "none"
    ELSE IF name \in {"p.txt", "u.TXT"} THEN "txt" ELSE "bin"

(* md5Checksum of the listing; q is a file the listing gives none for *)
ScanMd5 == [i \in ScanFileIds |-> IF i = "q" THEN "" ELSE "m_" \o i]

(* f"{folder_name}/{name}" *)
JoinPath(folder_name, name) == folder_name \o "/" \o name

RECURSIVE Concat(_, _)
(* the items of the first n pages, in order *)
Concat(pages, n) == IF n = 0 THEN <<>> ELSE Concat(pages, n - 1) \o pages[n]

(* get_folder_contents of diff_gdrive.py: k = 0 when every page arrives,    *)
(* else the request of page k raises and the items of the pages before it   *)
(* are returned                                                             *)
ScanFolderContents(f, k) ==
    IF k = 0 THEN Concat(ScanPages[f], Len(ScanPages[f]))
    ELSE Concat(ScanPages[f], k - 1)

FilterSeq(seq, S) == SelectSeq(seq, LAMBDA i : i \in S)

EmptyStats ==
    [total_folders |-> 0, total_files |-> 0, total_size_bytes |-> 0,
     files_by_extension |-> [e \in {} |-> 0],
     file_index |-> [q \in {} |-> 0],
     largest_files |-> <<>>,
     folder_sizes |-> [q \in {} |-> 0],
     folder_paths |-> [q \in {} |-> ""]]

(* d[k] = v for a dict d *)
DictSet(d, k, v) == [x \in DOMAIN d \cup {k} |-> IF x = k THEN v ELSE d[x]]

(* entries of largest_files kept (10, scaled) *)
TopN == 3

RECURSIVE InsertDesc(_, _, _)
(* the first n entries of the list sorted, with e put after the entries     *)
(* whose size is at least its own                                           *)
InsertDesc(sorted, n, e) ==
    IF n = 0 THEN <<e>>
    ELSE IF sorted[n].size >= e.size THEN SubSeq(sorted, 1, n) \o <<e>>
    ELSE InsertDesc(sorted, n - 1, e) \o <<sorted[n]>>

RECURSIVE SortedBySize(_, _)
(* sorted(list, key=lambda x: x[0], reverse=True) of the first n entries:   *)
(* by size, largest first, entries of equal size in their order in list     *)
SortedBySize(list, n) ==
    IF n = 0 THEN <<>>
    ELSE LET rest == SortedBySize(list, n - 1)
         IN InsertDesc(rest, Len(rest), list[n])

(* list[:n] *)
Take(list, n) == SubSeq(list, 1, IF Len(list) < n THEN Len(list) ELSE n)

LargestUnsorted(list) == Take(list, TopN)

(* check_gdrive.py line 198: "sorted(..., reverse=True)[:10]" *)
Largest(list) == Take(SortedBySize(list, Len(list)), TopN)

(* lines 187-208: the stats after one file of the folder named folder_name; *)
(* largest_files as lines 195-198 of check_gdrive.py leave it               *)
ScanFile(stats, folder_name, id, size) ==
    LET ext == ExtOf(ScanName[id])
        cnt == IF ext \in DOMAIN stats.files_by_extension
               THEN stats.files_by_extension[ext] ELSE 0
    IN [stats EXCEPT
          !.total_size_bytes = @ + size[id],
          !.files_by_extension = DictSet(@, ext, cnt + 1),
          !.largest_files =
              Largest(@ \o <<[size |-> size[id], name |-> ScanName[id],
                              path |-> JoinPath(folder_name, ScanName[id])]>>),
          !.file_index = DictSet(@, JoinPath(folder_name, ScanName[id]),
                                 [id |-> id, name |-> ScanName[id],
                                  size |-> size[id], md5 |-> ScanMd5[id],
                                  parent_folder |-> folder_name])]

RECURSIVE ScanFiles(_, _, _, _, _)
(* the loop of lines 187-208 over the first n files *)
ScanFiles(stats, folder_name, files, n, size) ==
    IF n = 0 THEN stats
    ELSE ScanFile(ScanFiles(stats, folder_name, files, n - 1, size),
                  folder_name, files[n], size)

RECURSIVE SumSizes(_, _, _)
SumSizes(files, n, size) ==
    IF n = 0 THEN 0 ELSE SumSizes(files, n - 1, size) + size[files[n]]

(* scan_folder_recursive, lines 171-211: the stats after the folder's own   *)
(* items                                                                    *)
ScanFolder(stats, id, folder_name, items, size) ==
    LET folders == FilterSeq(items, ScanFolderIds)
        files == FilterSeq(items, ScanFileIds)
        s1 == [stats EXCEPT
                 !.total_folders = @ + Len(folders),
                 !.total_files = @ + Len(files),
                 !.folder_paths = DictSet(@, id, folder_name)]
        s2 == ScanFiles(s1, folder_name, files, Len(files), size)
    IN [s2 EXCEPT !.folder_sizes = DictSet(@, folder_name,
                                           SumSizes(files, Len(files), size))]

(* max_depth = None *)
NoDepth == -1
ScanDepths == {NoDepth, 0, 1, 2}

StopsAtDeeper(max_depth, current_depth) ==
    max_depth # NoDepth /\ current_depth > max_depth

(* line 214: "max_depth is not None and current_depth >= max_depth" *)
StopsAt(max_depth, current_depth) ==
    max_depth # NoDepth /\ current_depth >= max_depth

(* the calls of lines 218-224, in order; none when line 214 returns *)
SubScans(folder_name, items, max_depth, current_depth) ==
    LET folders == FilterSeq(items, ScanFolderIds)
    IN IF StopsAt(max_depth, current_depth) THEN <<>>
       ELSE [i \in 1..Len(folders) |->
               [id |-> folders[i],
                path |-> JoinPath(folder_name, ScanName[folders[i]]),
                depth |-> current_depth + 1]]

RECURSIVE ScanAll(_, _, _)
(* scan_folder_recursive with its recursive calls, every listing returned:  *)
(* the stats after the calls of work, made depth first                      *)
ScanAll(stats, work, size) ==
    IF work = <<>> THEN stats
    ELSE LET f == work[1]
             items == ScanFolderContents(f.id, 0)
         IN ScanAll(ScanFolder(stats, f.id, f.path, items, size),
                    SubScans(f.path, items, NoDepth, f.depth) \o Tail(work),
                    size)

(* scan_folder_recursive(service, folder_id, folder_name, is_shared_drive)  *)
(* on the root of the tree, displayed under the name folder_name            *)
ScanTree(folder_name, size) ==
    ScanAll(EmptyStats, <<[id |-> ScanRoot, path |-> folder_name, depth |-> 0]>>,
            size)

NoContrib == [files |-> 0, folders |-> 0, bytes |-> 0]

ScanIdle ==
    [pc |-> "idle", size |-> [i \in {} |-> 0], work |-> <<>>,
     stats |-> EmptyStats, faults |-> 0, failed |-> {}, visited |-> {},
     returned |-> {}, contrib |-> [f \in {} |-> NoContrib],
     failedAt |-> [f \in {} |-> 0], max_depth |-> NoDepth,
     lists |-> [f \in ScanFolderIds |-> 0], seen |-> <<>>, tops |-> <<>>,
     twin |-> FALSE]

(* a scan starts: scan_folder_recursive is called on the root with          *)
(* current_depth 0 and any max_depth (main, line 677, passes none); twin is *)
(* drawn from twins                                                         *)
ScanBegin(twins) ==
    /\ scan.pc = "idle"
    /\ \E size \in [ScanFileIds -> Sizes], max_depth \in ScanDepths,
          twin \in twins :
         scan' = [ScanIdle EXCEPT
                    !.pc = "running", !.size = size, !.faults = MaxFaults,
                    !.max_depth = max_depth, !.twin = twin,
                    !.work = <<[id |-> ScanRoot, path |-> ScanName[ScanRoot],
                                depth |-> 0]>>]
    /\ UNCHANGED <<replVars, retry, cmp, direct, inter>>

(* a scan of the tree with distinct names *)
ScanStart == ScanBegin({FALSE})

(* a scan of the tree, two siblings sharing a name or not *)
ScanStartAnyNames == ScanBegin(BOOLEAN)

(* one call of scan_folder_recursive up to its recursive calls, which are   *)
(* the calls made next, depth first                                         *)
ScanStep ==
    /\ scan.pc = "running"
    /\ \E k \in 0..Len(ScanPages[scan.work[1].id]) :
         LET f == scan.work[1]
             items == ScanFolderContents(f.id, k)
             files == FilterSeq(items, ScanFileIds)
             stats2 == ScanFolder(scan.stats, f.id, f.path, items, scan.size)
             work2 == SubScans(f.path, items, scan.max_depth, f.depth)
                      \o Tail(scan.work)
         IN /\ k = 0 \/ scan.faults > 0
            /\ scan' = [scan EXCEPT
                 !.pc = IF work2 = <<>> THEN "done" ELSE "running",
                 !.work = work2,
                 !.stats = stats2,
                 !.faults = IF k = 0 THEN @ ELSE @ - 1,
                 !.failed = IF k = 0 THEN @ ELSE @ \cup {f.id},
                 !.failedAt = IF k = 0 THEN @ ELSE DictSet(@, f.id, k),
                 !.visited = @ \cup {f.id},
                 !.lists[f.id] = @ + 1,
                 !.seen = @ \o [j \in 1..Len(files) |-> scan.size[files[j]]],
                 !.tops = @ \o [j \in 1..Len(files) |->
                                  ScanFiles(scan.stats, f.path, files, j,
                                            scan.size).largest_files],
                 !.returned = @ \cup Range(items),
                 !.contrib = DictSet(@, f.id,
                    [files |-> stats2.total_files - scan.stats.total_files,
                     folders |-> stats2.total_folders - scan.stats.total_folders,
                     bytes |-> stats2.total_size_bytes
                               - scan.stats.total_size_bytes])]
    /\ UNCHANGED <<replVars, retry, cmp, direct, inter>>

----------------------------------------------------------------------------
(* diff_gdrive.py: compare_folders and the match percentage of display_diff. *)
(* The lists of a diff are modelled as the sets of their entries: each path  *)
(* is appended once, and the sorting of lines 459-466 is left out.  The      *)
(* match percentage is the exact quotient num / den.                         *)

CmpPaths == {"T/a.txt", "T/b"}
CmpName(path) == IF path = "T/a.txt" THEN "a.txt" ELSE "b"
Md5s == {"", "m1", "m2"}

(* the ScanStats of a folder: the files of idx, and extra files named a.txt  *)
(* of size 0 whose index entry a later namesake has overwritten              *)
MakeStats(idx, extra, nfolders) ==
    LET has(pth) == IF pth \in DOMAIN idx THEN 1 ELSE 0
        ntxt == has("T/a.txt") + extra
        nnone == has("T/b")
        sz(pth) == IF pth \in DOMAIN idx THEN idx[pth].size ELSE 0
    IN [total_folders |-> nfolders,
        total_files |-> ntxt + nnone,
        total_size_bytes |-> sz("T/a.txt") + sz("T/b"),
        files_by_extension |->
           [e \in (IF ntxt > 0 THEN {"txt"} ELSE {})
                  \cup (IF nnone > 0 THEN {"none"} ELSE {}) |->
              IF e = "txt" THEN ntxt ELSE nnone],
        file_index |-> idx]

IndexEntries(pth) ==
    {[name |-> CmpName(pth), size |-> z, md5 |-> m] : z \in Sizes, m \in Md5s}

Indexes ==
    UNION {{idx \in [D -> UNION {IndexEntries(pth) : pth \in D}] :
              \A pth \in D : idx[pth] \in IndexEntries(pth)} : D \in SUBSET CmpPaths}

StatsSet ==
    {MakeStats(idx, extra, Cardinality(DOMAIN idx) \div 2) :
        idx \in Indexes, extra \in {0, 1}}

(* a faulty variant of Differs: the checksum of the second file is not      *)
(* tested for being there                                                   *)
DiffersOneSided(file1, file2) ==
    file1.size # file2.size \/ (file1.md5 # "" /\ file1.md5 # file2.md5)

(* a faulty variant of Differs: checksums are ignored *)
DiffersSizeOnly(file1, file2) == file1.size # file2.size

(* a faulty variant of Differs: a file without checksum never matches *)
DiffersNoChecksum(file1, file2) ==
    file1.size # file2.size \/ file1.md5 = "" \/ file2.md5 = ""
    \/ file1.md5 # file2.md5

(* line 434: "file1['size'] != file2['size'] or (file1['md5'] and           *)
(* file2['md5'] and file1['md5'] != file2['md5'])"                          *)
Differs(file1, file2) ==
    file1.size # file2.size
    \/ (file1.md5 # "" /\ file2.md5 # "" /\ file1.md5 # file2.md5)

(* d.get(k, 0) *)
GetOrZero(d, k) == IF k \in DOMAIN d THEN d[k] ELSE 0

(* compare_folders(stats1, stats2) *)
CompareFolders(stats1, stats2) ==
    LET i1 == stats1.file_index
        i2 == stats2.file_index
        all_files == DOMAIN i1 \cup DOMAIN i2
        both == DOMAIN i1 \cap DOMAIN i2
        all_extensions == DOMAIN stats1.files_by_extension
                          \cup DOMAIN stats2.files_by_extension
    IN [total_files_diff |-> stats2.total_files - stats1.total_files,
        total_folders_diff |-> stats2.total_folders - stats1.total_folders,
        total_size_diff |-> stats2.total_size_bytes - stats1.total_size_bytes,
        files_only_in_first |->
           {[path |-> f, size |-> i1[f].size, name |-> i1[f].name] :
              f \in {g \in all_files : g \in DOMAIN i1 /\ g \notin DOMAIN i2}},
        files_only_in_second |->
           {[path |-> f, size |-> i2[f].size, name |-> i2[f].name] :
              f \in {g \in all_files : g \in DOMAIN i2 /\ g \notin DOMAIN i1}},
        different_files |->
           {[path |-> f, name |-> i1[f].name,
             size_diff |-> i2[f].size - i1[f].size,
             size1 |-> i1[f].size, size2 |-> i2[f].size] :
              f \in {g \in both : Differs(i1[g], i2[g])}},
        matching_files |->
           {[path |-> f, size |-> i1[f].size, name |-> i1[f].name] :
              f \in {g \in both : ~Differs(i1[g], i2[g])}},
        extensions_diff |->
           [e \in all_extensions |->
              GetOrZero(stats2.files_by_extension, e)
              - GetOrZero(stats1.files_by_extension, e)]]

(* a faulty variant of MatchPercentage: the different files are left out of *)
(* the total                                                                *)
MatchPercentageNoDifferent(diff) ==
    LET total == Cardinality(diff.files_only_in_first)
                 + Cardinality(diff.files_only_in_second)
                 + Cardinality(diff.matching_files)
    IN IF total > 0
       THEN [num |-> Cardinality(diff.matching_files) * 100, den |-> total]
       ELSE [num |-> 0, den |-> 1]

(* display_diff, lines 493-495: match_percentage as the quotient num / den  *)
MatchPercentage(diff) ==
    LET total_unique_files == Cardinality(diff.files_only_in_first)
                              + Cardinality(diff.files_only_in_second)
                              + Cardinality(diff.different_files)
                              + Cardinality(diff.matching_files)
    IN IF total_unique_files > 0
       THEN [num |-> Cardinality(diff.matching_files) * 100,
             den |-> total_unique_files]
       ELSE [num |-> 0, den |-> 1]

EmptyCmpStats == MakeStats([q \in {} |-> 0], 0, 0)

CmpIdle ==
    [pc |-> "idle", stats1 |-> EmptyCmpStats, stats2 |-> EmptyCmpStats,
     diff |-> CompareFolders(EmptyCmpStats, EmptyCmpStats),
     back |-> CompareFolders(EmptyCmpStats, EmptyCmpStats),
     pct |-> [num |-> 0, den |-> 1], names |-> <<"", "">>,
     sizes |-> <<[i \in {} |-> 0], [i \in {} |-> 0]>>]

(* main, line 694: the two stats are compared; back is the comparison the   *)
(* other way round                                                          *)
Compare ==
    /\ cmp.pc = "idle"
    /\ \E s1 \in StatsSet, s2 \in StatsSet :
         cmp' = [cmp EXCEPT !.pc = "compared", !.stats1 = s1, !.stats2 = s2,
                            !.diff = CompareFolders(s1, s2),
                            !.back = CompareFolders(s2, s1)]
    /\ UNCHANGED <<replVars, retry, scan, direct, inter>>

(* the display names two selected folders may have *)
RootNames == {"T", "U"}

(* main, lines 660-694: the two selected folders, each holding the tree of  *)
(* the scanner with sizes of its own, are scanned under their names and the *)
(* stats compared                                                           *)
ScanAndCompare ==
    /\ cmp.pc = "idle"
    /\ \E folder1_name \in RootNames, folder2_name \in RootNames :
       \E size1 \in [ScanFileIds -> Sizes], size2 \in [ScanFileIds -> Sizes] :
         LET stats1 == ScanTree(folder1_name, size1)
             stats2 == ScanTree(folder2_name, size2)
         IN cmp' = [cmp EXCEPT !.pc = "compared",
                               !.stats1 = stats1, !.stats2 = stats2,
                               !.diff = CompareFolders(stats1, stats2),
                               !.back = CompareFolders(stats2, stats1),
                               !.names = <<folder1_name, folder2_name>>,
                               !.sizes = <<size1, size2>>]
    /\ UNCHANGED <<replVars, retry, scan, direct, inter>>

(* main, line 697: display_diff *)
Display ==
    /\ cmp.pc = "compared"
    /\ cmp' = [cmp EXCEPT !.pc = "displayed", !.pct = MatchPercentage(cmp.diff)]
    /\ UNCHANGED <<replVars, retry, scan, direct, inter>>

----------------------------------------------------------------------------
(* main of gdrive_batch.py: the setup before the traversal (lines 719-835)  *)
(* and the exit code                                                        *)

EmptyCache == [q \in {} |-> EmptyDict]

(* no exit code yet: the process runs *)
NotExited == -1

(* what the setup meets: get_credentials and build; --source given or the   *)
(* folder picker (its listing, the number typed); the lookup of the         *)
(* source's name; the same for --dest; the answer to "Continue?"            *)
ListOutcomes == {"raises", "empty", "some"}
Choices == {"valid", "out_of_range", "not_a_number"}
SetupInputs ==
    [creds : {"ok", "raises"},
     srcArg : BOOLEAN, srcList : ListOutcomes, srcChoice : Choices,
     srcGet : {"ok", "raises"},
     destArg : BOOLEAN, destList : ListOutcomes, destChoice : Choices,
     destGet : {"ok", "raises"},
     confirm : {"y", "n"}]

(* lines 726-772 for the source and 777-822 for the destination: TRUE when  *)
(* the folder is settled, FALSE when main returns 1 (or the listing of the  *)
(* picker raises into the handler of line 890)                              *)
Selected(arg, list, choice, get) ==
    IF arg THEN get = "ok"
    ELSE list = "some" /\ choice = "valid"

(* lines 719-835: the exit code of a setup that ends main, NotExited of one *)
(* that goes on to the traversal; why names the step that ended it          *)
MainSetup(in) ==
    IF in.creds = "raises" THEN [exit |-> 1, why |-> "connect"]
    ELSE IF ~Selected(in.srcArg, in.srcList, in.srcChoice, in.srcGet)
    THEN [exit |-> 1, why |-> "source"]
    ELSE IF ~Selected(in.destArg, in.destList, in.destChoice, in.destGet)
    THEN [exit |-> 1, why |-> "dest"]
    ELSE IF in.confirm # "y" THEN [exit |-> 0, why |-> "cancelled"]
    ELSE [exit |-> NotExited, why |-> ""]

(* a faulty variant of ExitCode: errors fail the run *)
ExitCodeByErrors(summary) == IF summary.errors > 0 THEN 1 ELSE 0

(* line 896: "return 0" after the summary is displayed *)
ExitCode(summary) == 0

(* main before its setup, and main past its setup *)
MainStart == [pc |-> "start", exit |-> NotExited, why |-> ""]
MainReady == [pc |-> "ready", exit |-> NotExited, why |-> ""]

(* main, lines 719-835 *)
Setup ==
    /\ main.pc = "start"
    /\ \E in \in SetupInputs :
         LET r == MainSetup(in)
         IN main' = [pc |-> IF r.exit = NotExited THEN "ready" ELSE "exited",
                     exit |-> r.exit, why |-> r.why]
    /\ UNCHANGED <<srcSize, store, nextId, cache, log, stack, phase, run,
                   runsLeft, faults, menu, params, result, hist, first, last,
                   retry, scan, cmp,
                   direct, inter>>

(* main, lines 837-857 and 890-894: input() of the prompt of line 463       *)
(* raises (end of input) and the exception leaves the traversal             *)
PromptFails ==
    /\ main.pc = "ready"
    /\ phase \in {"idle", "done"}
    /\ runsLeft > 0
    /\ \E prm \in Menu(menu) :
         /\ params' = prm
         /\ log' = IF prm.progress /\ ~prm.resume THEN <<>> ELSE log
    /\ main' = [pc |-> "exited", exit |-> 1, why |-> "exception"]
    /\ phase' = "done"
    /\ run' = run + 1
    /\ runsLeft' = runsLeft - 1
    /\ cache' = EmptyCache
    /\ hist' = EmptyHist
    /\ last' = NoLast
    /\ UNCHANGED <<srcSize, store, nextId, stack, faults, menu, result, first,
                   retry, scan, cmp,
                   direct, inter>>

(* lines 597-600 and 890-894: after a subfolder's call returned, the write  *)
(* of its record to the progress file raises and the exception leaves the   *)
(* traversal                                                                *)
ProgressWriteFails ==
    /\ main.pc = "ready"
    /\ phase = "running"
    /\ params.progress
    /\ Len(stack) > 1
    /\ Top.state = "ret"
    /\ stack' = <<>>
    /\ phase' = "done"
    /\ main' = [pc |-> "exited", exit |-> 1, why |-> "exception"]
    /\ last' = NoLast
    /\ UNCHANGED <<srcSize, store, nextId, cache, log, run, runsLeft, faults,
                   menu, params, result, hist, first, retry, scan, cmp,
                   direct, inter>>

----------------------------------------------------------------------------
(* The replicator's actions *)

(* main, lines 837-857, with the prologue of the top-level call *)
StartRun ==
    /\ main.pc = "ready"
    /\ phase \in {"idle", "done"}
    /\ runsLeft > 0
    /\ \E prm \in Menu(menu), o \in FolderOutcomes(faults, store) :
       \E lg0 \in {IF prm.progress /\ ~prm.resume THEN <<>> ELSE log} :
       \E e \in {Enter(store, nextId, prm.source, DestRoot, 0, prm.max_items,
                       prm, o, lg0)} :
         LET used == Cardinality(FaultSites(o, FolderSites))
         IN /\ FaultSites(o, FolderSites) \subseteq e.ex
            /\ params' = prm
            /\ log' = lg0
            /\ cache' = EmptyCache
            /\ stack' = <<e.frame>>
            /\ store' = e.store
            /\ nextId' = e.nextId
            /\ faults' = faults - used
            /\ hist' = [HistEnter(EmptyHist, prm.source, e) EXCEPT
                          !.rootDest = e.frame.dest,
                          !.startLog = {lg0[i][1] : i \in 1..Len(lg0)},
                          !.used = used]
            /\ first' = IF run > 0
                        THEN [valid |-> TRUE, params |-> params, hist |-> hist,
                              result |-> result]
                        ELSE first
    /\ phase' = "running"
    /\ run' = run + 1
    /\ runsLeft' = runsLeft - 1
    /\ last' = NoLast
    /\ main' = [main EXCEPT !.exit = NotExited]
    /\ UNCHANGED <<srcSize, menu, result, retry, scan, cmp,
                   direct, inter>>

FolderStep ==
    /\ phase = "running"
    /\ Len(stack) > 0
    /\ Top.state = "folders"
    /\ \E o \in FolderOutcomes(faults, store) :
       \E r \in {FolderStepResult(stack, store, nextId, log, params, o)} :
         LET used == Cardinality(FaultSites(o, FolderSites))
             f == Top.folders[Top.fi]
         IN /\ FaultSites(o, FolderSites) \subseteq r.ex
            /\ stack' = r.stack
            /\ store' = r.store
            /\ nextId' = r.nextId
            /\ faults' = faults - used
            /\ hist' = IF r.called
                       THEN [HistEnter(hist, f, r) EXCEPT !.used = @ + used]
                       ELSE hist
    /\ last' = NoLast
    /\ UNCHANGED <<srcSize, cache, log, phase, run, runsLeft, menu, params,
                   result, first, main, retry, scan, cmp,
                   direct, inter>>

FileStep ==
    /\ phase = "running"
    /\ Len(stack) > 0
    /\ Top.state = "files"
    /\ \E o \in CopyOutcomes(faults, store) :
       \E fr \in {Top} :
       \E r \in {FileStepResult(fr, store, nextId, cache, log, params, o)} :
       \E c \in {r.c} :
         LET used == Cardinality(FaultSites(o, CopySites))
             id == fr.files[fr.ki]
             old == {e \in Children(store, fr.dest) :
                       e.name = SrcName[id] /\ ~e.folder /\ e.size # srcSize[id]}
         IN /\ FaultSites(o, CopySites) \subseteq c.ex
            /\ stack' = ReplaceTop(stack, r.frame)
            /\ store' = c.store
            /\ nextId' = c.nextId
            /\ cache' = c.cache
            /\ log' = r.log
            /\ faults' = faults - used
            /\ hist' = IF ~r.called THEN hist
                       ELSE [hist EXCEPT
                               !.invoked = @ \cup {id},
                               !.errFiles = @ \cup (IF c.status = "error"
                                                    THEN {id} ELSE {}),
                               !.nCopy = @ + Count("copy" \in c.ex),
                               !.made = @ \cup
                                  (IF \/ "copy" \in c.ex /\ o.copy = "ok"
                                      \/ "upload" \in c.ex /\ o.upload = "ok"
                                   THEN {id} ELSE {}),
                               !.nDelete = @ + Count("delete" \in c.ex),
                               !.nUpload = @ + Count("upload" \in c.ex),
                               !.nDownload = @ + Count("download" \in c.ex),
                               !.copyOverOld = @ \/ ("copy" \in c.ex
                                                     /\ old \cap c.atCopy # {}),
                               !.mutated = @ \cup (IF c.store # store
                                                   THEN {fr.dest} ELSE {}),
                               !.used = @ + used,
                               !.listedFor = IF "cacheList" \in c.ex
                                             THEN Append(@, fr.dest) ELSE @]
            /\ last' = IF ~r.called THEN NoLast
                       ELSE [valid |-> TRUE, file |-> id, parent |-> fr.dest,
                             destState |-> DestState(store, fr.dest, SrcName[id],
                                                     srcSize[id]),
                             status |-> c.status, reason |-> c.reason,
                             dCopied |-> r.frame.sum.copied_files
                                         - fr.sum.copied_files,
                             dSkipped |-> r.frame.sum.skipped_files
                                          - fr.sum.skipped_files,
                             dReplaced |-> r.frame.sum.replaced_files
                                           - fr.sum.replaced_files,
                             dErrors |-> r.frame.sum.errors - fr.sum.errors,
                             changed |-> c.store # store, used |-> used,
                             continues |-> r.frame.ki = fr.ki + 1,
                             hit |-> fr.dest \in DOMAIN cache,
                             cached |-> CheckFileExists(store, cache, SrcName[id],
                                                        fr.dest, o.cacheList,
                                                        o.pick).entry,
                             raised |-> "copy" \in c.ex /\ o.copy # "ok",
                             ex |-> c.ex, o |-> o, atCopy |-> c.atCopy]
    /\ UNCHANGED <<srcSize, phase, run, runsLeft, menu, params, result, first,
                   main, retry, scan, cmp,
                   direct, inter>>

(* "return summary": the call on top of the stack returns to its caller,    *)
(* lines 588-600, or to main, which displays the summary and returns its    *)
(* exit code, lines 859-896                                                 *)
Return ==
    /\ phase = "running"
    /\ Len(stack) > 0
    /\ Top.state = "ret"
    /\ IF Len(stack) = 1
       THEN /\ result' = Top.sum
            /\ stack' = <<>>
            /\ phase' = "done"
            /\ log' = log
            /\ main' = [main EXCEPT !.exit = ExitCode(Top.sum)]
       ELSE LET parent == stack[Len(stack) - 1]
                p2 == [parent EXCEPT !.sum = FoldSummary(@, Top.sum),
                                     !.fi = @ + 1]
            IN /\ stack' = Append(SubSeq(stack, 1, Len(stack) - 2), p2)
               /\ log' = SaveProgress(log, params, Top.src, "folder")
               /\ UNCHANGED <<result, phase, main>>
    /\ last' = NoLast
    /\ UNCHANGED <<srcSize, store, nextId, cache, run, runsLeft, faults, menu,
                   params, hist, first, retry, scan, cmp,
                   direct, inter>>

----------------------------------------------------------------------------
(* Initial states and specifications *)

(* what the destination holds for a source file before the first run: no   *)
(* file of that name, or one of some size                                  *)
DestVariants == {{}} \cup {{s} : s \in Sizes}

(* a destination that holds A/s1 with the variants dv of g1 and g2 *)
PreStore(dv) ==
    IF \A f \in DOMAIN dv : dv[f] = {} THEN {}
    ELSE {Entry(1, "A", DestRoot, TRUE, 0), Entry(2, "s1", 1, TRUE, 0)}
         \cup {Entry(3, SrcName["g1"], 2, FALSE, s) : s \in dv["g1"]}
         \cup {Entry(4, SrcName["g2"], 2, FALSE, s) : s \in dv["g2"]}

----------------------------------------------------------------------------
(* gdrive_direct.py: copy_folder_structure and copy_file, with --dry-run.   *)
(* The items of a source folder are listed with its files first.  Past its  *)
(* dry-run returns copy_file is, line for line, the copy_file of            *)
(* gdrive_batch.py.                                                         *)

(* f"dry-run-folder-{depth}-{folder_name}": an id no entry of the store has, *)
(* one for each depth and name                                              *)
DryRunBase == -10
DryRunFolderId(depth, name) ==
    DryRunBase - 10 * depth
      - (IF name = "A" THEN 1 ELSE IF name = "s1" THEN 2
         ELSE IF name = "s2" THEN 3 ELSE 4)

(* parent_folder_id.startswith('dry-run-folder-') *)
IsDryRunFolder(p) == p <= DryRunBase

(* check_file_exists(service, name, p, file_cache, dry_run), lines 523-575 *)
DirectCheckFileExists(st, ch, name, p, dry_run, outcome, pick) ==
    IF dry_run /\ IsDryRunFolder(p)
    THEN [entry |-> NoEntry,
          cache |-> IF p \in DOMAIN ch THEN ch
                    ELSE [q \in DOMAIN ch \cup {p} |->
                            IF q = p THEN EmptyDict ELSE ch[q]],
          ex |-> {}]
    ELSE CheckFileExists(st, ch, name, p, outcome, pick)
           @@ [ex |-> IF p \in DOMAIN ch THEN {} ELSE {"cacheList"}]

(* a faulty variant of DirectCopyFile: the dry run is not looked at *)
DirectCopyFileForReal(st, nid, ch, name, fsz, p, dry_run, o) ==
    CopyFile(st, nid, ch, name, fsz, p, o)

(* copy_file of gdrive_direct.py, lines 617-805 *)
DirectCopyFile(st, nid, ch, name, fsz, p, dry_run, o) ==
    IF ~dry_run THEN CopyFile(st, nid, ch, name, fsz, p, o)
    ELSE LET c1 == DirectCheckFileExists(st, ch, name, p, dry_run, o.cacheList,
                                         o.pick)
             existing == c1.entry
         IN IF Found(existing) /\ SameSize(existing, fsz)
            THEN CopyResult("skipped", "same_size", st, nid, c1.cache, c1.ex, st)
            ELSE IF Found(existing)
            THEN CopyResult("would_replace", "different_size", st, nid, c1.cache,
                            c1.ex, st)
            ELSE CopyResult("would_copy", "", st, nid, c1.cache, c1.ex, st)

DirectSummary ==
    [copied_files |-> 0, skipped_files |-> 0, replaced_files |-> 0,
     copied_folders |-> 0, total_copied_bytes |-> 0, errors |-> 0]

(* lines 960-987: the summary after copy_file returned status *)
DirectUpdateSummary(sum, status, fsz, dry_run) ==
    IF dry_run
    THEN IF status = "would_copy"
         THEN [sum EXCEPT !.copied_files = @ + 1, !.total_copied_bytes = @ + fsz]
         ELSE IF status = "skipped"
         THEN [sum EXCEPT !.skipped_files = @ + 1]
         ELSE IF status = "would_replace"
         THEN [sum EXCEPT !.replaced_files = @ + 1,
                          !.total_copied_bytes = @ + fsz]
         ELSE sum
    ELSE IF status \in {"copied", "uploaded"}
         THEN [sum EXCEPT !.copied_files = @ + 1, !.total_copied_bytes = @ + fsz]
         ELSE IF status = "skipped"
         THEN [sum EXCEPT !.skipped_files = @ + 1]
         ELSE [sum EXCEPT !.errors = @ + 1]

(* lines 951-956: the summary after a subfolder's call returned *)
DirectFoldSummary(sum, sub) ==
    [sum EXCEPT
       !.copied_files = @ + sub.copied_files,
       !.skipped_files = @ + sub.skipped_files,
       !.replaced_files = @ + sub.replaced_files,
       !.copied_folders = @ + sub.copied_folders,
       !.total_copied_bytes = @ + sub.total_copied_bytes,
       !.errors = @ + sub.errors]

(* lines 832-918: the destination folder of the call; counted is the        *)
(* copied_folders it adds, created whether createFolder made a folder       *)
DirectResolveDest(st, nid, destParent, name, depth, dry_run, ans, o) ==
    LET lookup == depth > 0 \/ ans.sub
        cands == IF lookup /\ o.existList = "ok"
                 THEN ExistingFolders(st, destParent, name) ELSE {}
        reuse == cands # {} /\ (depth > 0 \/ ans.use)
        exl == IF lookup THEN {"existList"} ELSE {}
        same == [ok |-> TRUE, dest |-> destParent, store |-> st, nextId |-> nid,
                 counted |-> FALSE, ex |-> exl]
    IN IF ~lookup THEN same
       ELSE IF reuse THEN [same EXCEPT !.dest = FirstOf(cands, o.pick).id]
       ELSE IF dry_run
       THEN [same EXCEPT !.dest = DryRunFolderId(depth, name), !.counted = TRUE]
       ELSE IF o.create = "ok"
       THEN [same EXCEPT !.dest = nid,
                         !.store = st \cup {Entry(nid, name, destParent, TRUE, 0)},
                         !.nextId = nid + 1, !.counted = TRUE,
                         !.ex = exl \cup {"create"}]
       ELSE [same EXCEPT !.ok = FALSE, !.dest = -1, !.ex = exl \cup {"create"}]

(* the items of a source folder as get_folder_contents returns them *)
DirectItems(srcF, outcome) ==
    IF outcome = "ok" THEN SrcFilesOf[srcF] \o SrcSubfolders[srcF] ELSE <<>>

(* the call's frame after lines 810-932; an empty items is a call about to  *)
(* return                                                                   *)
DirectEnter(st, nid, srcF, destParent, depth, dry_run, ans, o) ==
    LET r == DirectResolveDest(st, nid, destParent, SrcName[srcF], depth,
                               dry_run, ans, o)
        base == [src |-> srcF, dest |-> r.dest, depth |-> depth, idx |-> 1,
                 items |-> <<>>, sum |-> DirectSummary]
    IN IF ~r.ok
       THEN [frame |-> [base EXCEPT !.sum.errors = 1], store |-> r.store,
             nextId |-> r.nextId, ex |-> r.ex]
       ELSE [frame |-> [base EXCEPT
                          !.items = DirectItems(srcF, o.srcList),
                          !.sum.copied_folders = IF r.counted THEN 1 ELSE 0],
             store |-> r.store, nextId |-> r.nextId,
             ex |-> r.ex \cup {"srcList"}]

DirectIdle ==
    [pc |-> "idle", dry_run |-> FALSE, ans |-> [sub |-> FALSE, use |-> FALSE],
     store |-> {}, store0 |-> {}, nextId |-> 5, cache |-> EmptyCache,
     stack |-> <<>>, faults |-> 0, calls |-> {}, result |-> DirectSummary]

DirectTop == direct.stack[Len(direct.stack)]

(* main, lines 1194-1216: the top-level call of copy_folder_structure, into *)
(* any destination                                                          *)
DirectStart ==
    /\ direct.pc = "idle"
    /\ \E dry_run \in BOOLEAN, ans \in Answers,
          dv \in [{"g1", "g2"} -> DestVariants] :
       \E o \in FolderOutcomes(MaxFaults, PreStore(dv)) :
       \E e \in {DirectEnter(PreStore(dv), 5, SrcRoot, DestRoot, 0, dry_run,
                             ans, o)} :
         /\ FaultSites(o, FolderSites) \subseteq e.ex
         /\ direct' = [DirectIdle EXCEPT
                         !.pc = "running", !.dry_run = dry_run, !.ans = ans,
                         !.store = e.store, !.store0 = PreStore(dv),
                         !.nextId = e.nextId, !.stack = <<e.frame>>,
                         !.faults = MaxFaults
                                    - Cardinality(FaultSites(o, FolderSites)),
                         !.calls = e.ex]
    /\ UNCHANGED <<batchVars, inter>>

(* lines 942-956, up to the recursive call: the item is a subfolder *)
DirectFolder ==
    /\ direct.pc = "running"
    /\ DirectTop.idx <= Len(DirectTop.items)
    /\ DirectTop.items[DirectTop.idx] \in SrcFolderIds
    /\ \E o \in FolderOutcomes(direct.faults, direct.store) :
       \E e \in {DirectEnter(direct.store, direct.nextId,
                             DirectTop.items[DirectTop.idx], DirectTop.dest,
                             DirectTop.depth + 1, direct.dry_run, direct.ans, o)} :
         /\ FaultSites(o, FolderSites) \subseteq e.ex
         /\ direct' = [direct EXCEPT
                         !.store = e.store, !.nextId = e.nextId,
                         !.stack = Append(@, e.frame),
                         !.faults = @ - Cardinality(FaultSites(o, FolderSites)),
                         !.calls = @ \cup e.ex]
    /\ UNCHANGED <<batchVars, inter>>

(* lines 957-990: the item is a file *)
DirectFile ==
    /\ direct.pc = "running"
    /\ DirectTop.idx <= Len(DirectTop.items)
    /\ DirectTop.items[DirectTop.idx] \in SrcFileIds
    /\ \E o \in CopyOutcomes(direct.faults, direct.store) :
       \E id \in {DirectTop.items[DirectTop.idx]} :
       \E c \in {DirectCopyFile(direct.store, direct.nextId, direct.cache,
                                SrcName[id], srcSize[id], DirectTop.dest,
                                direct.dry_run, o)} :
         /\ FaultSites(o, CopySites) \subseteq c.ex
         /\ direct' = [direct EXCEPT
                         !.store = c.store, !.nextId = c.nextId,
                         !.cache = c.cache,
                         !.stack[Len(direct.stack)] =
                            [@ EXCEPT !.idx = @ + 1,
                                      !.sum = DirectUpdateSummary(
                                                 @, c.status, srcSize[id],
                                                 direct.dry_run)],
                         !.faults = @ - Cardinality(FaultSites(o, CopySites)),
                         !.calls = @ \cup c.ex]
    /\ UNCHANGED <<batchVars, inter>>

(* "return summary", line 927 or 996: to the call of the parent, lines      *)
(* 950-956, or to main                                                      *)
DirectReturn ==
    /\ direct.pc = "running"
    /\ DirectTop.idx > Len(DirectTop.items)
    /\ IF Len(direct.stack) = 1
       THEN direct' = [direct EXCEPT !.pc = "done", !.stack = <<>>,
                                     !.result = DirectTop.sum]
       ELSE LET n == Len(direct.stack)
                parent == direct.stack[n - 1]
                p2 == [parent EXCEPT !.sum = DirectFoldSummary(@, DirectTop.sum),
                                     !.idx = @ + 1]
            IN direct' = [direct EXCEPT
                            !.stack = Append(SubSeq(@, 1, n - 2), p2)]
    /\ UNCHANGED <<batchVars, inter>>

----------------------------------------------------------------------------
(* check_file_exists alone, on a destination folder of up to PageSize + 2   *)
(* files named "1", "2", ...; with dup the second file has the name of the  *)
(* first                                                                    *)

MaxChildren == PageSize + 2

BigFolder(n, dup) ==
    {Entry(i, IF dup /\ i = 2 THEN ToString(1) ELSE ToString(i), DestRoot,
           FALSE, 1) : i \in 1..n}

(* one call check_file_exists(service, name, DestRoot, file_cache); a       *)
(* folder larger than a page answers with its first page                    *)
Lookup ==
    /\ \E name \in {ToString(i) : i \in 1..MaxChildren},
          pick \in {"low", "high"} :
       \E outcome \in (IF Cardinality(Children(store, DestRoot)) > PageSize
                        THEN {"paged", "fail"} ELSE {"ok", "fail"}) :
         LET r == CheckFileExists(store, cache, name, DestRoot, outcome, pick)
         IN /\ cache' = r.cache
            /\ last' = [NoLast EXCEPT
                          !.valid = TRUE, !.parent = DestRoot,
                          !.hit = DestRoot \in DOMAIN cache,
                          !.cached = r.entry,
                          !.reason = name,
                          !.status = IF DestRoot \in DOMAIN cache THEN "cached"
                                     ELSE outcome]
    /\ UNCHANGED <<srcSize, store, nextId, log, stack, phase, run, runsLeft,
                   faults, menu, params, result, hist, first, main, retry, scan,
                   cmp, direct, inter>>

----------------------------------------------------------------------------
(* gdrive_interactive.py: copy_folder_structure, its copy_file and          *)
(* create_folder, and the banner main prints.  The tree copied is the tree  *)
(* with root SrcRoot; a folder's items are listed with its subfolders       *)
(* first.                                                                   *)

(* what the calls of one copy_file meet, and the failures that takes: the   *)
(* copy returns, or raises; after insufficientFilePermissions ("perm") the  *)
(* download and the upload return or raise                                  *)
InterCopyOutcomes ==
    {[copy |-> "ok", download |-> "none", upload |-> "none", used |-> 0],
     [copy |-> "fail", download |-> "none", upload |-> "none", used |-> 1],
     [copy |-> "perm", download |-> "ok", upload |-> "ok", used |-> 1],
     [copy |-> "perm", download |-> "fail", upload |-> "none", used |-> 2],
     [copy |-> "perm", download |-> "ok", upload |-> "fail", used |-> 2]}

(* copy_file(service, file_id, name, parent_id), lines 408-462: TRUE for    *)
(* the file returned, FALSE for None                                        *)
InterCopyFile(o) ==
    \/ o.copy = "ok"
    \/ o.copy = "perm" /\ o.download = "ok" /\ o.upload = "ok"

(* what the prologue of one call meets: create_folder, when it is called,   *)
(* and the listing of get_folder_contents                                   *)
InterFolderOutcomes ==
    {[create |-> c, list |-> l,
      used |-> Count(c = "fail") + Count(l = "fail")] :
        c \in {"ok", "fail", "none"}, l \in {"ok", "fail", "none"}}

(* get_folder_contents, lines 464-517: a listing that raises gives the      *)
(* items gathered before                                                    *)
InterGetFolderContents(srcF, outcome) ==
    IF outcome = "ok" THEN SrcSubfolders[srcF] \o SrcFilesOf[srcF] ELSE <<>>

(* lines 531, 540, 550 and 583: what the call returns; created is FALSE     *)
(* when create_folder returned None                                         *)
InterReturns(created) == created

(* copy_folder_structure, lines 519-555: the call up to its loop.  sub is   *)
(* the answer to "Create a new subfolder?" at depth 0                       *)
InterEnter(st, nid, srcF, destParent, depth, sub, o) ==
    LET creates == depth > 0 \/ sub
        created == ~creates \/ o.create = "ok"
        dest == IF creates THEN nid ELSE destParent
    IN IF ~created
       THEN [entered |-> FALSE, store |-> st, nextId |-> nid,
             frame |-> [src |-> srcF, dest |-> -1, depth |-> depth, idx |-> 1,
                        items |-> <<>>]]
       ELSE [entered |-> TRUE,
             store |-> IF creates
                       THEN st \cup {Entry(nid, SrcName[srcF], destParent, TRUE, 0)}
                       ELSE st,
             nextId |-> IF creates THEN nid + 1 ELSE nid,
             frame |-> [src |-> srcF, dest |-> dest, depth |-> depth, idx |-> 1,
                        items |-> InterGetFolderContents(srcF, o.list)]]

(* the outcomes the prologue of a call at this depth can meet with at most  *)
(* k failures: create_folder is called at nested levels and after "y", the  *)
(* listing after the folder is there                                        *)
InterPrologues(depth, sub, k) ==
    {o \in InterFolderOutcomes :
        /\ o.used <= k
        /\ (o.create = "none") = ~(depth > 0 \/ sub)
        /\ (o.list = "none") = (o.create = "fail")}

(* the banner main prints, lines 690-698 *)
InterBanner(success) ==
    IF success THEN "Copy Process Completed!"
    ELSE "Copy Process Completed with Errors"

InterIdle ==
    [pc |-> "idle", sub |-> FALSE, store |-> {}, nextId |-> 1, stack |-> <<>>,
     faults |-> 0, copied |-> {}, failedFiles |-> {}, failedFolders |-> {},
     failedLists |-> {}, success |-> FALSE, banner |-> ""]

InterTop == inter.stack[Len(inter.stack)]

(* main, lines 682-698, when the top-level call has returned *)
InterDone(r, success) ==
    [r EXCEPT !.pc = "done", !.stack = <<>>, !.success = success,
              !.banner = InterBanner(success)]

(* main, line 683: the top-level call of copy_folder_structure, into an     *)
(* empty destination; a call whose create_folder fails returns at once      *)
InterStart ==
    /\ inter.pc = "idle"
    /\ \E sub \in BOOLEAN :
       \E o \in InterPrologues(0, sub, MaxFaults) :
         LET e == InterEnter({}, 1, SrcRoot, DestRoot, 0, sub, o)
             r == [InterIdle EXCEPT
                     !.pc = "running", !.sub = sub, !.store = e.store,
                     !.nextId = e.nextId, !.faults = MaxFaults - o.used,
                     !.failedFolders = IF e.entered THEN {} ELSE {SrcRoot},
                     !.failedLists = IF o.list = "fail" THEN {SrcRoot} ELSE {}]
         IN inter' = IF e.entered THEN [r EXCEPT !.stack = <<e.frame>>]
                     ELSE InterDone(r, InterReturns(FALSE))
    /\ UNCHANGED <<batchVars, direct>>

(* lines 565-570: the item is a subfolder; the recursive call is entered,   *)
(* or it returns False at once and the loop goes on                         *)
InterFolder ==
    /\ inter.pc = "running"
    /\ InterTop.idx <= Len(InterTop.items)
    /\ InterTop.items[InterTop.idx] \in SrcFolderIds
    /\ \E o \in InterPrologues(InterTop.depth + 1, inter.sub, inter.faults) :
         LET f == InterTop.items[InterTop.idx]
             e == InterEnter(inter.store, inter.nextId, f, InterTop.dest,
                             InterTop.depth + 1, inter.sub, o)
             n == Len(inter.stack)
         IN inter' = [inter EXCEPT
                        !.store = e.store, !.nextId = e.nextId,
                        !.faults = @ - o.used,
                        !.failedFolders = IF e.entered THEN @ ELSE @ \cup {f},
                        !.failedLists = IF o.list = "fail" THEN @ \cup {f} ELSE @,
                        !.stack = IF e.entered THEN Append(@, e.frame)
                                  ELSE [@ EXCEPT ![n].idx = @ + 1]]
    /\ UNCHANGED <<batchVars, direct>>

(* lines 571-578: the item is a file *)
InterFile ==
    /\ inter.pc = "running"
    /\ InterTop.idx <= Len(InterTop.items)
    /\ InterTop.items[InterTop.idx] \in SrcFileIds
    /\ \E o \in {x \in InterCopyOutcomes : x.used <= inter.faults} :
         LET id == InterTop.items[InterTop.idx]
             file_copy == InterCopyFile(o)
             n == Len(inter.stack)
         IN inter' = [inter EXCEPT
                        !.store = IF file_copy
                                  THEN @ \cup {NewFile(inter.nextId, SrcName[id],
                                                       InterTop.dest, srcSize[id])}
                                  ELSE @,
                        !.nextId = IF file_copy THEN @ + 1 ELSE @,
                        !.faults = @ - o.used,
                        !.copied = IF file_copy THEN @ \cup {id} ELSE @,
                        !.failedFiles = IF file_copy THEN @ ELSE @ \cup {id},
                        !.stack[n].idx = @ + 1]
    /\ UNCHANGED <<batchVars, direct>>

(* lines 550 and 583: the call on top of the stack returns, to the loop of  *)
(* its caller, which tests the value for its message only, or to main       *)
InterReturn ==
    /\ inter.pc = "running"
    /\ InterTop.idx > Len(InterTop.items)
    /\ LET n == Len(inter.stack)
           success == InterReturns(TRUE)
       IN inter' = IF n = 1 THEN InterDone(inter, success)
                   ELSE [inter EXCEPT
                           !.stack = [SubSeq(@, 1, n - 1) EXCEPT
                                        ![n - 1].idx = @ + 1]]
    /\ UNCHANGED <<batchVars, direct>>

----------------------------------------------------------------------------
(* Initial states *)

InitCommon ==
    /\ nextId = 5          \* the ids below 5 are those of PreStore
    /\ cache = EmptyCache
    /\ log = <<>>
    /\ stack = <<>>
    /\ phase = "idle"
    /\ run = 0
    /\ params = NoParams
    /\ result = NewSummary(NoLimit)
    /\ hist = EmptyHist
    /\ first = NoFirst
    /\ last = NoLast
    /\ retry = RetryIdle
    /\ scan = ScanIdle
    /\ cmp = CmpIdle
    /\ direct = DirectIdle
    /\ inter = InterIdle

(* main is past its setup *)
InitRest == InitCommon /\ main = MainReady

(* one plain run into any destination, with remote failures *)
Init ==
    /\ srcSize \in [SrcFileIds -> Sizes]
    /\ \E dv \in [{"g1", "g2"} -> DestVariants] : store = PreStore(dv)
    /\ runsLeft = 1
    /\ faults = MaxFaults
    /\ menu = "plain"
    /\ InitRest

(* two runs with any command lines into an empty destination, no failures *)
InitTwoRuns ==
    /\ srcSize \in [SrcFileIds -> Sizes]
    /\ store = {}
    /\ runsLeft = 2
    /\ faults = 0
    /\ menu = "any"
    /\ InitRest

(* the sizes of x.txt and y.bin *)
FreshSizes == [f \in FreshFileIds |-> IF f = "x" THEN 100 ELSE 200]

(* one plain run over A/{sub/{y.bin}, x.txt} into an empty destination,     *)
(* with remote failures                                                     *)
InitFresh ==
    /\ srcSize = FreshSizes
    /\ store = {}
    /\ runsLeft = 1
    /\ faults = MaxFaults
    /\ menu = "fresh"
    /\ InitRest

(* the wrapper alone *)
InitRetry ==
    /\ srcSize = [f \in SrcFileIds |-> 0]
    /\ store = {}
    /\ runsLeft = 0
    /\ faults = 0
    /\ menu = "plain"
    /\ InitRest

(* two runs with a progress file into an empty destination, one remote     *)
(* failure                                                                  *)
InitLogged ==
    /\ srcSize \in [SrcFileIds -> Sizes]
    /\ store = {}
    /\ runsLeft = 2
    /\ faults = 1
    /\ menu = "logged"
    /\ InitRest

(* one invocation of main from its first line, with a progress file and    *)
(* one remote failure                                                       *)
InitMain ==
    /\ srcSize \in [SrcFileIds -> Sizes]
    /\ store = {}
    /\ runsLeft = 1
    /\ faults = 1
    /\ menu = "logged"
    /\ InitCommon
    /\ main = MainStart

Next == StartRun \/ FolderStep \/ FileStep \/ Return

NextRetry == RetryStart \/ RetryInvoke

Spec == Init /\ [][Next]_vars

SpecTwoRuns == InitTwoRuns /\ [][Next]_vars

SpecRetry == InitRetry /\ [][NextRetry]_vars

SpecFresh == InitFresh /\ [][Next]_vars

SpecLogged == InitLogged /\ [][Next]_vars

NextMain ==
    \/ Setup \/ PromptFails \/ StartRun \/ FolderStep \/ FileStep \/ Return
    \/ ProgressWriteFails

SpecMain == InitMain /\ [][NextMain]_vars

(* gdrive_direct.py alone: the sizes of the source files are any *)
InitDirect ==
    /\ srcSize \in [SrcFileIds -> Sizes]
    /\ store = {}
    /\ runsLeft = 0
    /\ faults = 0
    /\ menu = "plain"
    /\ InitRest

NextDirect == DirectStart \/ DirectFolder \/ DirectFile \/ DirectReturn

SpecDirect == InitDirect /\ [][NextDirect]_vars

(* check_file_exists alone *)
InitLookup ==
    /\ srcSize = [f \in SrcFileIds |-> 0]
    /\ \E n \in 0..MaxChildren, dup \in BOOLEAN : store = BigFolder(n, dup)
    /\ runsLeft = 0
    /\ faults = 0
    /\ menu = "plain"
    /\ InitRest

NextLookup == Lookup

SpecLookup == InitLookup /\ [][NextLookup]_vars

(* the scanner alone *)
InitScan == InitRetry

NextScan == ScanStart \/ ScanStep

SpecScan == InitScan /\ [][NextScan]_vars

(* two scans and their comparison *)
InitScanDiff == InitRetry

NextScanDiff == ScanAndCompare \/ Display

SpecScanDiff == InitScanDiff /\ [][NextScanDiff]_vars

(* the scanner alone, siblings sharing a name or not *)
InitScanNames == InitRetry

NextScanNames == ScanStartAnyNames \/ ScanStep

SpecScanNames == InitScanNames /\ [][NextScanNames]_vars

(* gdrive_interactive.py alone *)
InitInter == InitRetry

NextInter == InterStart \/ InterFolder \/ InterFile \/ InterReturn

SpecInter == InitInter /\ [][NextInter]_vars

(* the comparison alone *)
InitDiff == InitRetry

NextDiff == Compare \/ Display

SpecDiff == InitDiff /\ [][NextDiff]_vars

----------------------------------------------------------------------------
(* Properties *)

AllFiles == SrcFileIds

(* both runs are unlimited and fresh, and the second is given the           *)
(* destination the first one wrote: the same answers at the root prompts,   *)
(* an existing folder being used                                            *)
SameDestination(p1, p2) ==
    /\ p1.ans = p2.ans
    /\ p1.ans.sub => p1.ans.use

SecondRunDone == run = 2 /\ phase = "done" /\ first.valid

(* C1: idempotence.  After one complete failure-free run into a             *)
(* destination, a second run over the unchanged source and the resulting    *)
(* destination reports copied_files = 0, skipped_files = the number of      *)
(* source files, errors = 0, and issues no copy, delete or create call.     *)
C1_Idempotent ==
    (/\ SecondRunDone
     /\ first.params.max_items = NoLimit /\ ~first.params.resume
     /\ params.max_items = NoLimit /\ ~params.resume
     /\ SameDestination(first.params, params)
     /\ first.result.errors = 0)
    => /\ result.copied_files = 0
       /\ result.skipped_files = Cardinality(AllFiles)
       /\ result.errors = 0
       /\ hist.nCopy = 0
       /\ hist.nDelete = 0
       /\ hist.nCreate = 0

(* a run halted after N >= 1 items with a progress file, then a run that    *)
(* resumes on that file                                                     *)
HaltedThenResumed ==
    /\ SecondRunDone
    /\ first.params.max_items # NoLimit /\ first.params.max_items >= 1
    /\ first.params.progress /\ ~first.params.resume
    /\ params.progress /\ params.resume /\ params.max_items = NoLimit
    /\ SameDestination(first.params, params)

(* C2: resume correctness.  A run halted after N items followed by a run    *)
(* that resumes on the same progress file processes exactly the items the   *)
(* first did not: the files of the two runs together are the files of one   *)
(* uninterrupted run, and no file is processed by both.                     *)
C2_ResumeCompletes ==
    HaltedThenResumed
    => /\ first.hist.invoked \cup hist.invoked = AllFiles
       /\ first.hist.invoked \cap hist.invoked = {}

(* C3: the decision table.  When a file is processed and all remote calls   *)
(* succeed, the summary records: absent -> copied_files + 1; present with   *)
(* equal size -> skipped_files + 1 and no remote mutation; present with     *)
(* different size -> replaced_files + 1; exactly one counter moves.         *)
C3_DecisionTable ==
    (last.valid /\ hist.used = 0)
    => /\ last.destState = "absent" => last.dCopied = 1
       /\ last.destState = "same" => last.dSkipped = 1 /\ ~last.changed
       /\ last.destState = "diff" => last.dReplaced = 1
       /\ last.dCopied + last.dSkipped + last.dReplaced = 1

(* C4: delete before copy.  Whenever the copy call for a file is issued and *)
(* the destination folder held a same-named file of different size when the *)
(* file's processing started, that old file has been deleted by then.       *)
C4_DeleteBeforeCopy == hist.used = 0 => ~hist.copyOverOld

DestNames == {SrcName[f] : f \in SrcFileIds}

(* the next check_file_exists(name, p, cache) agrees with the store *)
LookupAgrees(p) ==
    \A n \in DestNames : \A pk \in Picks(store) :
        LET e == CheckFileExists(store, cache, n, p, "ok", pk).entry
        IN IF Found(e) THEN e \in Children(store, p) /\ e.name = n
           ELSE \A d \in Children(store, p) : d.name # n

(* C5: cache invalidation.  After copy_file added, deleted or replaced a    *)
(* file under parent P, the next check_file_exists on the same cache        *)
(* answers as the remote store's current content of P.                      *)
C5_CacheInvalidated ==
    (phase = "running" /\ last.valid /\ last.changed /\ hist.used = 0)
    => LookupAgrees(last.parent)

(* C6: the backoff bound.  With max_retries = M and the wrapped operation   *)
(* rate-limited at every invocation the wrapper invokes it M + 1 times,     *)
(* sleeps M times, one sleep before each retry, and then raises the last    *)
(* rate-limit failure.                                                      *)
C6_BackoffBound ==
    (retry.pc # "idle" /\ retry.allRate)
    => /\ retry.calls <= retry.max_retries + 1
       /\ retry.calls <= retry.max_retries
            => retry.pc = "running" /\ retry.sleeps = retry.calls
       /\ retry.calls = retry.max_retries + 1
            => /\ retry.pc = "raised"
               /\ retry.sleeps = retry.max_retries
               /\ retry.lastOut = RateLimited

C6_Witness ==
    /\ retry.pc = "raised" /\ retry.allRate
    /\ retry.max_retries = MaxRetries
    /\ retry.calls = MaxRetries + 1
    /\ retry.sleeps = MaxRetries

(* a failure that is no rate-limit failure *)
OtherFailure(out) ==
    ~out.ok /\ ~(out.http /\ out.status = 403 /\ out.marker)

(* C7: a failure that is not a rate-limit failure propagates on the         *)
(* invocation where it occurs: no sleep and no further invocation follows,  *)
(* however many rate-limit retries came before.                             *)
C7_OtherFailuresPropagate ==
    [][/\ (retry.pc = "running" /\ retry'.calls = retry.calls + 1
           /\ OtherFailure(retry'.lastOut))
          => retry'.pc = "raised" /\ retry'.sleeps = retry.sleeps
       /\ retry.pc = "raised" => retry'.calls = retry.calls
                                 /\ retry'.sleeps = retry.sleeps]_vars

C7_Witness ==
    /\ retry.pc = "raised"
    /\ OtherFailure(retry.lastOut)
    /\ retry.sleeps = MaxRetries
    /\ retry.calls = MaxRetries + 1

(* C8: per-file errors never abort the run.  An error outcome of copy_file  *)
(* adds exactly one to errors and the loop goes on with the next file; at   *)
(* the end of a run with such an error every file of every folder whose     *)
(* listing arrived has been given to copy_file and every subfolder of it    *)
(* has been entered.                                                        *)
C8_ErrorsDoNotAbort ==
    /\ (last.valid /\ last.status = "error")
         => /\ last.dErrors = 1
            /\ last.dCopied = 0 /\ last.dSkipped = 0
            /\ last.continues
            /\ phase = "running"
    /\ (phase = "done" /\ hist.errFiles # {})
         => \A f \in hist.got :
               /\ Range(SrcFilesOf[f]) \subseteq hist.invoked
               /\ Range(SrcSubfolders[f]) \subseteq hist.entered

C8_Witness ==
    /\ phase = "done"
    /\ "g1" \in hist.errFiles
    /\ hist.invoked = AllFiles
    /\ result.errors = 1

(* C9: a folder-creation failure is confined to its subtree.  When the      *)
(* creation fails for subfolder S, the call for S returns a summary with    *)
(* errors = 1 and nothing of S is listed or copied, while every sibling     *)
(* subfolder and every file of S's parent is still processed, and the       *)
(* parent's summary includes S's error.                                     *)
C9_CreateFailureConfined ==
    \A S \in hist.createFailed \ {SrcRoot} :
       /\ S \notin hist.listed
       /\ Range(SrcFilesOf[S]) \cap hist.invoked = {}
       /\ \A i \in 1..Len(stack) :
             stack[i].src = S
             => /\ stack[i].state = "ret"
                /\ stack[i].sum = [NewSummary(stack[i].max_items)
                                     EXCEPT !.errors = 1]
       /\ (phase = "done" /\ SrcParent(S) \in hist.got)
             => /\ Range(SrcSubfolders[SrcParent(S)]) \subseteq hist.entered
                /\ Range(SrcFilesOf[SrcParent(S)]) \subseteq hist.invoked
                /\ result.errors = Cardinality(hist.createFailed)
                                   + Cardinality(hist.errFiles)

C9_Witness ==
    /\ phase = "done"
    /\ hist.createFailed = {"s1"}
    /\ "s2" \in hist.got
    /\ {"h1", "f1"} \subseteq hist.invoked
    /\ result.errors = 1

(* C10: resume descends into logged folders.  On a run that resumes, a      *)
(* subfolder whose id is in the progress log is still descended into, and   *)
(* each of its children whose id is not in the log is processed.            *)
C10_ResumeDescends ==
    (/\ phase = "done"
     /\ params.progress /\ params.resume /\ params.max_items = NoLimit)
    => \A S \in (SrcFolderIds \ {SrcRoot}) \cap hist.startLog :
          /\ S \in hist.entered
          /\ (Range(SrcFilesOf[S]) \ hist.startLog) \subseteq hist.invoked

(* C11: the item budget.  With max_items = M >= 1 the top-level call        *)
(* returns with total_items_processed <= M, a processed subfolder and a     *)
(* processed file counting one item each.                                   *)
C11_BudgetBound ==
    (phase = "done" /\ params.max_items # NoLimit /\ params.max_items >= 1)
    => result.total_items_processed <= params.max_items

(* the destination holds A/x.txt (100 bytes) and A/sub/y.bin (200 bytes)    *)
(* and nothing else                                                         *)
FreshCopyInPlace ==
    \E a \in store, b \in store, x \in store, y \in store :
       /\ a.folder /\ a.name = "A" /\ a.parent = DestRoot
       /\ b.folder /\ b.name = "sub" /\ b.parent = a.id
       /\ ~x.folder /\ x.name = "x.txt" /\ x.parent = a.id /\ x.size = 100
       /\ ~y.folder /\ y.name = "y.bin" /\ y.parent = b.id /\ y.size = 200
       /\ store = {a, b, x, y}

FreshRunDone ==
    /\ phase = "done" /\ params.source = FreshRoot
    /\ params.ans.sub /\ hist.used = 0

(* C12: the fresh copy.  Replicating A = {x.txt of 100 bytes, sub/{y.bin of *)
(* 200 bytes}} into an empty destination, a new root subfolder requested    *)
(* and no remote failure, yields copied_files = 2, copied_folders = 2,      *)
(* total_copied_bytes = 300, skipped_files = 0, errors = 0, and the         *)
(* destination holds A/x.txt and A/sub/y.bin.                               *)
C12_FreshCopy ==
    FreshRunDone
    => /\ result.copied_files = 2
       /\ result.copied_folders = 2
       /\ result.total_copied_bytes = 300
       /\ result.skipped_files = 0
       /\ result.errors = 0
       /\ FreshCopyInPlace

C12_Witness == FreshRunDone /\ result.copied_files = 2 /\ FreshCopyInPlace

(* C13: cache memoization.  With one shared cache check_file_exists lists   *)
(* destination parent P remotely only at the first lookup for P; a later    *)
(* lookup for P, for any name, makes no remote call and answers from the    *)
(* memoized map.                                                            *)
C13_CacheMemoized ==
    [][last'.valid =>
         /\ IF last'.parent \in DOMAIN cache
            THEN /\ hist'.listedFor = hist.listedFor
                 /\ last'.cached = DictGet(cache[last'.parent],
                                           SrcName[last'.file])
            ELSE hist'.listedFor = Append(hist.listedFor, last'.parent)
         /\ \A i \in 1..Len(hist'.listedFor) : \A j \in 1..Len(hist'.listedFor) :
               hist'.listedFor[i] = hist'.listedFor[j] => i = j]_vars

C13_Witness ==
    /\ last.valid /\ last.hit /\ last.file = "g2"
    /\ Found(last.cached) /\ last.status = "skipped"
    /\ hist.listedFor = <<last.parent>>

(* C14: the delay ceiling.  For every initial delay, factor, jitter and     *)
(* retry index, every sleep the wrapper issues lasts at most the ceiling    *)
(* (DelayCap seconds).                                                      *)
C14_SleepCeiling == retry.sleeps > 0 => retry.sleep100 <= DelayCap * 100

(* the destination folder of the last file holds a file of its name and of  *)
(* nonzero size: what a fresh re-query finds                                *)
NonzeroNamesake ==
    \E e \in Children(store, last.parent) :
       e.name = SrcName[last.file] /\ e.size > 0

(* C15: the double check.  When the copy, or its fallback, raised,          *)
(* copy_file reports a success (copied or uploaded) only if a fresh         *)
(* re-query of the destination finds a same-named file of nonzero size;     *)
(* otherwise the outcome is error.                                          *)
C15_SuccessNeedsNonzeroFile ==
    (last.valid /\ last.raised /\ last.reason # "" /\ ~NonzeroNamesake)
    => last.status = "error"

(* the folder f, whose listing failed, is taken as empty: none of its items *)
(* reached the scan and it added nothing to the stats                       *)
TakenAsEmpty(f) ==
    /\ Range(ScanFolderContents(f, 0)) \cap scan.returned = {}
    /\ Range(ScanFolderContents(f, 0)) \cap scan.visited = {}
    /\ scan.contrib[f] = NoContrib

(* C16: the scanner's failure policy.  When the listing of a folder fails,  *)
(* on any page, the folder is treated as empty: it adds no files, no        *)
(* subfolders and no bytes to the stats, and the scan goes on with the      *)
(* remaining folders.                                                       *)
C16_FailedFolderIsEmpty ==
    /\ \A f \in scan.failed : TakenAsEmpty(f)
    /\ (scan.pc = "done" /\ scan.max_depth = NoDepth)
         => (scan.returned \cap ScanFolderIds) \subseteq scan.visited

PathsOf(bucket) == {e.path : e \in bucket}

(* C17: diff symmetry.  The paths only in the first of compare_folders(A,B) *)
(* are the paths only in the second of compare_folders(B,A) and vice versa; *)
(* the same paths are different in both directions with size_diff negated;  *)
(* extensions_diff and total_files_diff are negated.                        *)
C17_DiffSymmetric ==
    cmp.pc # "idle"
    => /\ PathsOf(cmp.diff.files_only_in_first)
            = PathsOf(cmp.back.files_only_in_second)
       /\ PathsOf(cmp.diff.files_only_in_second)
            = PathsOf(cmp.back.files_only_in_first)
       /\ PathsOf(cmp.diff.different_files) = PathsOf(cmp.back.different_files)
       /\ \A d \in cmp.diff.different_files : \A b \in cmp.back.different_files :
             d.path = b.path => b.size_diff = -d.size_diff
       /\ DOMAIN cmp.diff.extensions_diff = DOMAIN cmp.back.extensions_diff
       /\ \A e \in DOMAIN cmp.diff.extensions_diff :
             cmp.back.extensions_diff[e] = -cmp.diff.extensions_diff[e]
       /\ cmp.back.total_files_diff = -cmp.diff.total_files_diff

C17_Witness ==
    /\ cmp.pc = "compared"
    /\ cmp.diff.files_only_in_first # {}
    /\ \E d \in cmp.diff.different_files : d.size_diff > 0
    /\ cmp.diff.total_files_diff < 0
    /\ \E e \in DOMAIN cmp.diff.extensions_diff : cmp.diff.extensions_diff[e] # 0

(* the files of a path on both sides match: equal sizes, and equal          *)
(* checksums when both sides have one                                       *)
ShouldMatch(f1, f2) ==
    f1.size = f2.size /\ (f1.md5 # "" /\ f2.md5 # "" => f1.md5 = f2.md5)

(* C18: diff classification.  Every path of the union of the two indexes is *)
(* in exactly one of the four buckets, so the bucket sizes sum to the size  *)
(* of the union; a path in both indexes is matching iff the sizes are equal *)
(* and the checksums are equal whenever both are non-empty; a different     *)
(* entry records size_diff = sizeB - sizeA.                                 *)
C18_DiffClassifies ==
    cmp.pc # "idle"
    => LET i1 == cmp.stats1.file_index
           i2 == cmp.stats2.file_index
           d == cmp.diff
           count(f) == Cardinality({e \in d.files_only_in_first : e.path = f})
                       + Cardinality({e \in d.files_only_in_second : e.path = f})
                       + Cardinality({e \in d.different_files : e.path = f})
                       + Cardinality({e \in d.matching_files : e.path = f})
       IN /\ \A f \in DOMAIN i1 \cup DOMAIN i2 : count(f) = 1
          /\ Cardinality(d.files_only_in_first)
             + Cardinality(d.files_only_in_second)
             + Cardinality(d.different_files) + Cardinality(d.matching_files)
               = Cardinality(DOMAIN i1 \cup DOMAIN i2)
          /\ PathsOf(d.files_only_in_first) = DOMAIN i1 \ DOMAIN i2
          /\ PathsOf(d.files_only_in_second) = DOMAIN i2 \ DOMAIN i1
          /\ \A f \in DOMAIN i1 \cap DOMAIN i2 :
                f \in PathsOf(d.matching_files) <=> ShouldMatch(i1[f], i2[f])
          /\ \A e \in d.different_files :
                e.size_diff = i2[e.path].size - i1[e.path].size

C18_Witness ==
    /\ cmp.pc = "compared"
    /\ \E e \in cmp.diff.matching_files :
          cmp.stats1.file_index[e.path].md5 # cmp.stats2.file_index[e.path].md5
    /\ \E e \in cmp.diff.different_files : e.size_diff = 0

(* C19: self-diff.  For stats A with a non-empty file index,                *)
(* compare_folders(A,A) has nothing only in the first, nothing only in the  *)
(* second and nothing different, every path of A is matching, and the match *)
(* percentage is 100.                                                       *)
C19_SelfDiff ==
    (cmp.pc # "idle" /\ cmp.stats1 = cmp.stats2
     /\ DOMAIN cmp.stats1.file_index # {})
    => /\ cmp.diff.files_only_in_first = {}
       /\ cmp.diff.files_only_in_second = {}
       /\ cmp.diff.different_files = {}
       /\ PathsOf(cmp.diff.matching_files) = DOMAIN cmp.stats1.file_index
       /\ cmp.pc = "displayed" => cmp.pct.num = 100 * cmp.pct.den

C19_Witness ==
    /\ cmp.pc = "displayed" /\ cmp.stats1 = cmp.stats2
    /\ DOMAIN cmp.stats1.file_index = CmpPaths
    /\ \E f \in CmpPaths : cmp.stats1.file_index[f].md5 = ""
    /\ cmp.pct.num = 100 * cmp.pct.den

(* C20: the match percentage is 100 * |matching| / (|matching| + |only in   *)
(* first| + |only in second| + |different|), and 0, with no division error, *)
(* when the four buckets are empty.                                         *)
C20_MatchPercentage ==
    cmp.pc = "displayed"
    => LET m == Cardinality(cmp.diff.matching_files)
           total == m + Cardinality(cmp.diff.files_only_in_first)
                    + Cardinality(cmp.diff.files_only_in_second)
                    + Cardinality(cmp.diff.different_files)
       IN /\ cmp.pct.den > 0
          /\ IF total = 0 THEN cmp.pct.num = 0
             ELSE cmp.pct.num * total = 100 * m * cmp.pct.den

C20_Witness ==
    /\ cmp.pc = "displayed"
    /\ Cardinality(cmp.diff.matching_files) = 1
    /\ Cardinality(cmp.diff.different_files) = 1
    /\ cmp.pct.num * 2 = 100 * cmp.pct.den

(* the four buckets are empty and the percentage is 0 *)
C20_EmptyWitness ==
    /\ cmp.pc = "displayed"
    /\ DOMAIN cmp.stats1.file_index \cup DOMAIN cmp.stats2.file_index = {}
    /\ cmp.pct.num = 0

(* the items of a folder in the remote store *)
ScanChildren(f) == Range(ScanFolderContents(f, 0))

RECURSIVE ScanDepthOf(_)
(* the depth of a folder of the tree, the root at depth 0 *)
ScanDepthOf(f) ==
    IF f = ScanRoot THEN 0
    ELSE 1 + ScanDepthOf(CHOOSE g \in ScanFolderIds : f \in ScanChildren(g))

WithinDepth(f) ==
    scan.max_depth = NoDepth \/ ScanDepthOf(f) <= scan.max_depth

(* the folder's own files are in the index and its files and subfolders are *)
(* counted                                                                  *)
Inventoried(f) ==
    /\ scan.contrib[f].files = Cardinality(ScanChildren(f) \cap ScanFileIds)
    /\ scan.contrib[f].folders = Cardinality(ScanChildren(f) \cap ScanFolderIds)
    /\ \A i \in ScanChildren(f) \cap ScanFileIds :
         \E pth \in DOMAIN scan.stats.file_index :
            scan.stats.file_index[pth].id = i

(* C21: the scanner's depth bound.  With max_depth = D the scan lists no    *)
(* folder deeper than D and no folder twice; when it ends, every folder at  *)
(* depth <= D that a listing returned (and the root) was listed once and,   *)
(* its listing not having failed, has its files inventoried and its         *)
(* subfolders counted.  With max_depth unset the same holds of every folder.*)
C21_DepthBound ==
    /\ \A f \in ScanFolderIds :
         /\ scan.lists[f] <= 1
         /\ scan.lists[f] > 0 => WithinDepth(f)
    /\ scan.pc = "done" =>
         \A f \in ScanFolderIds :
            (WithinDepth(f) /\ (f = ScanRoot \/ f \in scan.returned))
               => /\ scan.lists[f] = 1
                  /\ f \notin scan.failed => Inventoried(f)

(* a scan with max_depth 1 and no failed listing has ended: d1, at depth 1, *)
(* is inventoried and its subfolder d3 counted, d3 was never listed         *)
C21_Witness ==
    /\ scan.pc = "done" /\ scan.failed = {} /\ scan.max_depth = 1
    /\ scan.lists["d1"] = 1 /\ scan.contrib["d1"].folders = 1
    /\ scan.lists["d3"] = 0 /\ scan.stats.total_folders = 3

(* the log after the step is the log before it and one record more *)
AppendedOne == Len(log') = Len(log) + 1 /\ SubSeq(log', 1, Len(log)) = log

(* the step is the return of a subfolder's call to the call of its parent *)
SubfolderReturns ==
    Len(stack) > 1 /\ Top.state = "ret" /\ Len(stack') = Len(stack) - 1

(* the records of the log that name item i *)
RecordsOf(i) == {k \in 1..Len(log) : log[k][1] = i}

(* C22: the progress log is append-only with one record per resolved item.  *)
(* In a run with a progress file, a step that processes a file appends the  *)
(* one record (file id, outcome); the return of a subfolder's call appends  *)
(* the one record (folder id, folder), and only then is a folder's record   *)
(* written; every other step of the traversal leaves the log as it is, and  *)
(* no step changes or removes a record.  A log begun by the run holds one   *)
(* record for each file processed and none for any other file.              *)
C22_LogAppendOnly ==
    /\ [][(phase = "running" /\ params.progress) =>
            IF last'.valid
            THEN AppendedOne /\ log'[Len(log')] = <<last'.file, last'.status>>
            ELSE IF SubfolderReturns
            THEN AppendedOne /\ log'[Len(log')] = <<Top.src, "folder">>
            ELSE log' = log]_vars
    /\ [](params.progress /\ ~params.resume /\ phase \in {"running", "done"}
            => \A i \in SrcFileIds :
                  Cardinality(RecordsOf(i)) = Count(i \in hist.invoked))

(* a resumed run has ended with the records of a folder and of a failed     *)
(* file after the records it started from                                   *)
C22_Witness ==
    /\ phase = "done" /\ params.progress /\ params.resume /\ run = 2
    /\ hist.startLog # {}
    /\ \E k \in 1..Len(log) : log[k][2] = "folder" /\ log[k][1] \notin hist.startLog
    /\ \E k \in 1..Len(log) : log[k][2] = "error" /\ log[k][1] \notin hist.startLog

(* the traversal of the run returned to main *)
TraversalReturned == phase = "done" /\ main.pc = "ready"

(* C23: partial success exit status.  A run whose setup succeeded and whose *)
(* traversal returned exits with code 0 whatever its errors counter; exit   *)
(* code 1 comes only from a failed setup (connection, source or destination *)
(* lookup or selection) or from an exception that left the traversal.       *)
C23_ExitStatus ==
    /\ TraversalReturned => main.exit = 0
    /\ main.exit = 1 => main.why \in {"connect", "source", "dest", "exception"}
    /\ main.why = "cancelled" => main.exit = 0

(* a run ended with errors counted and exit code 0 *)
C23_Witness ==
    TraversalReturned /\ result.errors > 0 /\ main.exit = 0

ListingCalls == {"cacheList", "existList", "srcList"}

(* C24: a dry run makes no changes.  With dry_run set, copy_folder_structure *)
(* and copy_file of gdrive_direct.py issue listing calls only, no           *)
(* createFolder, copy, delete, download or upload, and the remote store     *)
(* stays as it was, whatever the source sizes, the destination and the      *)
(* answers at the prompts.                                                  *)
C24_DryRunNoChanges ==
    direct.dry_run =>
        /\ direct.calls \subseteq ListingCalls
        /\ direct.store = direct.store0

(* a dry run into a destination that holds a file of another size has       *)
(* ended: it counted a folder it would create, a file it would copy and one *)
(* it would replace                                                         *)
C24_Witness ==
    /\ direct.pc = "done" /\ direct.dry_run
    /\ direct.result.copied_folders > 0
    /\ direct.result.copied_files > 0
    /\ direct.result.replaced_files > 0
    /\ direct.store = direct.store0 /\ direct.store0 # {}

(* a call for source folder f is in progress *)
OnStack(f) == \E k \in 1..Len(stack) : stack[k].src = f

(* the j-th subfolder of the call fr is dealt with: the log named it, or    *)
(* its recursive call was made and has returned                             *)
FolderDone(fr, j) ==
    \/ fr.folders[j] \in fr.processed
    \/ fr.folders[j] \in hist.entered /\ ~OnStack(fr.folders[j])

(* C25: subfolders before files.  In every call of process_folder_recursive *)
(* the subfolders are visited in listing order, one recursive call at a     *)
(* time, and copy_file is called for a file of the folder only when every   *)
(* subfolder is dealt with: skipped as logged, or its recursive call        *)
(* returned (a budget that stops the subfolders stops the files as well).   *)
C25_FoldersBeforeFiles ==
    \A k \in 1..Len(stack) :
       LET fr == stack[k]
       IN /\ \A j \in 1..Len(fr.folders) :
               /\ j < fr.fi => FolderDone(fr, j)
               /\ j > fr.fi => fr.folders[j] \notin hist.entered
               /\ (j = fr.fi /\ fr.folders[j] \in hist.entered)
                     => (k < Len(stack) /\ stack[k + 1].src = fr.folders[j])
          /\ Range(fr.files) \cap hist.invoked # {}
               => \A j \in 1..Len(fr.folders) : FolderDone(fr, j)

(* copy_file was called for f1, the file of A, after the calls for s1 and   *)
(* s2 returned                                                              *)
C25_Witness ==
    /\ last.valid /\ last.file = "f1"
    /\ {"s1", "s2"} \subseteq hist.entered
    /\ Len(stack) = 1

(* the folder of the last file held, when its copy was tried, a file of its *)
(* name and of nonzero size                                                 *)
NonzeroNamesakeAtCopy ==
    \E e \in Children(last.atCopy, last.parent) :
       e.name = SrcName[last.file] /\ e.size > 0

(* C26: the permission fallback.  copy_file downloads or uploads only when  *)
(* the native copy was tried and failed with a permission error and the     *)
(* re-query after it found no same-named file of nonzero size; after any    *)
(* other failure of the copy, and without a copy, nothing is downloaded or  *)
(* uploaded; an upload follows a download.                                  *)
C26_PermissionFallback ==
    last.valid =>
       /\ (last.ex \cap {"download", "upload"} # {})
             => /\ "copy" \in last.ex /\ last.o.copy = "perm"
                /\ "postList" \in last.ex
                /\ ~(last.o.postList = "ok" /\ NonzeroNamesakeAtCopy)
       /\ "upload" \in last.ex => "download" \in last.ex /\ last.o.download = "ok"
       /\ ("copy" \in last.ex /\ last.o.copy \in {"fail", "ghost"})
             => last.ex \cap {"download", "upload"} = {}

(* the copy of a file failed with a permission error and the file was       *)
(* uploaded                                                                 *)
C26_Witness ==
    /\ last.valid /\ last.o.copy = "perm" /\ "upload" \in last.ex
    /\ last.status = "uploaded"

(* the files of the last file's name in its destination folder now: what a  *)
(* listing made after the last remote operation of copy_file returns        *)
NamesakesNow ==
    {e \in Children(store, last.parent) : e.name = SrcName[last.file]}

(* what a listing of that folder made now gives for the name: of several    *)
(* same-named files the one the name-keyed dict keeps                       *)
RequeryFinds ==
    IF NamesakesNow = {} THEN NoEntry ELSE PickOf(NamesakesNow, last.o.pick)

(* C27: a re-query after every failed stage.  copy_file returns the error   *)
(* copy_failed only after the copy was tried and the re-queries made after  *)
(* it (post and final, with caches of their own) found no same-named file;  *)
(* it returns alt_method_failed only after the download or the upload       *)
(* failed and the re-query made after that found no same-named file of      *)
(* nonzero size (of several same-named files it finds the one its dict      *)
(* keeps).  A re-query that found such a file ends copy_file with a         *)
(* success.                                                                 *)
C27_RequeryBeforeError ==
    last.valid =>
       /\ (last.status = "error" /\ last.reason = "copy_failed")
             => /\ {"copy", "postList", "finalList"} \subseteq last.ex
                /\ last.o.copy # "ok"
                /\ last.o.finalList = "ok" => NamesakesNow = {}
       /\ (last.status = "error" /\ last.reason = "alt_method_failed")
             => /\ {"copy", "postList", "download", "altList"} \subseteq last.ex
                /\ last.o.download # "ok" \/ last.o.upload # "ok"
                /\ last.o.altList = "ok" => ~Qualifies(RequeryFinds)

(* both errors happened: this one is alt_method_failed after a failed       *)
(* upload, its re-query having returned the listing                         *)
C27_Witness ==
    /\ last.valid /\ last.status = "error" /\ last.reason = "alt_method_failed"
    /\ "upload" \in last.ex /\ last.o.upload # "ok" /\ last.o.altList = "ok"

RECURSIVE Pow(_, _)
Pow(b, n) == IF n = 0 THEN 1 ELSE b * Pow(b, n - 1)

(* C28: geometric backoff.  Within one wrapped call the base delay of the   *)
(* k-th retry is min(initial_delay * factor^(k-1), DelayCap), and the sleep *)
(* is that delay times a factor between 1 - jitter and 1 + jitter.          *)
C28_GeometricBackoff ==
    retry.sleeps > 0 =>
       LET base == Min(retry.initial_delay * Pow(retry.factor, retry.sleeps - 1),
                       DelayCap)
       IN /\ retry.base = base
          /\ retry.sleep100 >= base * (100 - retry.jitter)
          /\ retry.sleep100 <= base * (100 + retry.jitter)

(* the same for initial delays up to the ceiling *)
C28_WithinCeiling == retry.initial_delay <= DelayCap => C28_GeometricBackoff

(* every destination folder of a replicator's run fits in one page *)
FoldersFitOnePage ==
    \A e \in store : Cardinality(Children(store, e.parent)) <= PageSize

(* C29: cache completeness at fill.  After the first lookup for a           *)
(* destination folder whose listing call succeeded, the memoized map of the *)
(* folder has an entry for every name among the folder's children, however  *)
(* many they are.                                                           *)
C29_CacheComplete ==
    (last.valid /\ ~last.hit /\ last.status \in {"ok", "paged"})
    => \A e \in Children(store, last.parent) :
          e.name \in DOMAIN cache[last.parent]

(* the same for folders that fit in one page *)
C29_WithinOnePage ==
    Cardinality(Children(store, DestRoot)) <= PageSize => C29_CacheComplete

(* the number of entries of the sequence s that satisfy Test *)
CountIn(s, Test(_)) == Cardinality({i \in DOMAIN s : Test(s[i])})

(* list holds the largest sizes of the sizes of sizes: each size no more    *)
(* often than among sizes, and no size left out exceeds one of list         *)
HoldsLargest(list, sizes) ==
    \A v \in Range(sizes) :
       LET kept == CountIn(list, LAMBDA e : e.size = v)
           all == CountIn(sizes, LAMBDA x : x = v)
       IN /\ kept <= all
          /\ kept < all => \A i \in DOMAIN list : list[i].size >= v

(* C30: the top-10 largest files.  After every file the scanner processes,  *)
(* largest_files has at most 10 (here TopN) entries, is sorted by size in   *)
(* non-increasing order, and its sizes are the min(10, n) largest sizes     *)
(* among the n files scanned so far across all folders.                     *)
C30_LargestFiles ==
    /\ Len(scan.tops) = Len(scan.seen)
    /\ \A n \in DOMAIN scan.tops :
         LET list == scan.tops[n]
             sizes == SubSeq(scan.seen, 1, n)
         IN /\ Len(list) = (IF n < TopN THEN n ELSE TopN)
            /\ \A i \in 1..(Len(list) - 1) : list[i].size >= list[i + 1].size
            /\ \A i \in DOMAIN list : list[i].size \in Range(sizes)
            /\ HoldsLargest(list, sizes)
    /\ scan.tops # <<>> => scan.stats.largest_files = scan.tops[Len(scan.tops)]

(* a scan of all six files has ended; files of two sizes were scanned, a    *)
(* larger one after TopN smaller ones, and the list holds TopN entries      *)
C30_Witness ==
    /\ scan.pc = "done" /\ Len(scan.seen) = Cardinality(ScanFileIds)
    /\ Len(scan.stats.largest_files) = TopN
    /\ \E n \in DOMAIN scan.seen :
         /\ n > TopN
         /\ \A i \in 1..(n - 1) : scan.seen[i] < scan.seen[n]
         /\ scan.stats.largest_files[1].size = scan.seen[n]

(* the top-level call of the current run has returned *)
RunReturned == phase = "done" /\ run > 0

(* the recursive calls made: every call entered but the top-level one *)
SubfolderCalls == Cardinality(hist.entered) - 1

(* C31: summary conservation.  When the top-level call returns, the files   *)
(* counted as copied, skipped, replaced or failed are the files copy_file   *)
(* was invoked for plus the folder creations that failed, and               *)
(* total_items_processed is the files copy_file was invoked for plus the    *)
(* recursive subfolder calls made.                                          *)
C31_SummaryConservation ==
    RunReturned =>
       /\ result.copied_files + result.skipped_files + result.replaced_files
             + result.errors
          = Cardinality(hist.invoked) + Cardinality(hist.createFailed)
       /\ result.total_items_processed
          = Cardinality(hist.invoked) + SubfolderCalls

(* a run returned after a folder creation failed in one subfolder and       *)
(* copy_file was invoked, with a failure, in another                        *)
C31_Witness ==
    /\ RunReturned
    /\ hist.createFailed # {} /\ hist.errFiles # {}
    /\ SubfolderCalls = 2 /\ result.errors = 2

(* the destination folder d holds a file of the name of the source file f *)
HoldsFile(d, f) ==
    \E e \in Children(store, d) : ~e.folder /\ e.name = SrcName[f]

(* the destination folder that corresponds to the source folder of f exists *)
(* and holds a file of f's name                                             *)
Mirrored(f) ==
    IF SrcParent(f) = SrcRoot THEN HoldsFile(hist.rootDest, f)
    ELSE \E d \in Children(store, hist.rootDest) :
            d.folder /\ d.name = SrcName[SrcParent(f)] /\ HoldsFile(d.id, f)

(* the run had no item budget and did not resume, and it returned no error *)
CleanReturn ==
    /\ RunReturned /\ params.max_items = NoLimit /\ ~params.resume
    /\ result.errors = 0

(* C32: zero errors means a complete mirror.  If a run without item budget  *)
(* and without resume returns errors = 0, then for every file of the source *)
(* tree the corresponding destination folder exists and holds a file of     *)
(* that name, whatever remote calls, source listings included, failed.      *)
C32_ZeroErrorsMirror == CleanReturn => \A f \in SrcFileIds : Mirrored(f)

(* the same, for the runs in which every source listing returned *)
C32_WhenListed ==
    (CleanReturn /\ hist.listed = hist.got) => \A f \in SrcFileIds : Mirrored(f)

(* no destination folder holds two files of one name *)
OneFilePerName ==
    \A e \in store : \A d \in store :
       (~e.folder /\ ~d.folder /\ d.parent = e.parent /\ d.name = e.name)
          => d.id = e.id

(* C33: no duplicate file names.  The destination of a run holds at most    *)
(* one file per name in every folder before the run (PreStore); then in     *)
(* every state of the run, no remote call having failed, every destination  *)
(* folder still holds at most one file per name.                            *)
C33_NoDuplicateNames == hist.used = 0 => OneFilePerName

(* C34: replace never loses the file.  If the destination folder held a     *)
(* file of the name of the file copy_file was called for before the call,   *)
(* it holds a file of that name after the call, whatever remote operation   *)
(* failed during the call.                                                  *)
C34_ReplaceKeepsFile ==
    (last.valid /\ last.destState # "absent")
       => \E e \in Children(store, last.parent) :
             ~e.folder /\ e.name = SrcName[last.file]

(* the same, for the calls in which no remote operation failed *)
C34_WithoutFailure ==
    last.used = 0 => C34_ReplaceKeepsFile

(* C35: no duplicate destination folders.  At nested levels (depth > 0)     *)
(* process_folder_recursive never calls create_folder for a name while the  *)
(* destination parent holds a folder of that name, the case of a failed     *)
(* existence lookup included.                                               *)
C35_NoDuplicateFolders == hist.createOver \subseteq {params.source}

(* the same, for the calls whose existence lookup returned *)
C35_WhenLookedUp == hist.used = 0 => C35_NoDuplicateFolders

RECURSIVE SourceBytes(_)
(* the sum of the source sizes of the files of S *)
SourceBytes(S) ==
    IF S = {} THEN 0
    ELSE LET f == CHOOSE x \in S : TRUE
         IN srcSize[f] + SourceBytes(S \ {f})

(* C36: copied counts real copies.  When a run in which no remote call      *)
(* failed returns, copied_files is the number of files for which a copy or  *)
(* upload call of this run succeeded (hist.made) and total_copied_bytes is  *)
(* the sum of their source sizes: a file found already present in the       *)
(* destination is not counted as copied.                                    *)
C36_CopiedCountsCopies ==
    (RunReturned /\ hist.used = 0) =>
       /\ result.copied_files = Cardinality(hist.made)
       /\ result.total_copied_bytes = SourceBytes(hist.made)

(* the two folders compared hold the same files below their roots: the      *)
(* same relative paths and checksums (one tree) and the same sizes          *)
SameContents == cmp.pc # "idle" /\ cmp.sizes[1] = cmp.sizes[2]

NoDifference ==
    /\ cmp.diff.files_only_in_first = {}
    /\ cmp.diff.files_only_in_second = {}
    /\ cmp.diff.different_files = {}

(* C37: the diff is independent of the names of the roots.  For two trees   *)
(* whose contents below the root are identical, scanning each and comparing *)
(* the stats gives empty files_only_in_first, files_only_in_second and      *)
(* different_files, whatever the display names of the two roots.            *)
C37_DiffIgnoresRootNames == SameContents => NoDifference

(* the same, for two roots of one display name *)
C37_SameRootName ==
    cmp.names[1] = cmp.names[2] => C37_DiffIgnoresRootNames

RECURSIVE IndexBytes(_, _)
(* the sum of the sizes of the entries of the index idx at the paths K *)
IndexBytes(idx, K) ==
    IF K = {} THEN 0
    ELSE LET k == CHOOSE x \in K : TRUE
         IN idx[k].size + IndexBytes(idx, K \ {k})

RECURSIVE CountSum(_, _)
(* the sum of the counts of d at the keys K *)
CountSum(d, K) ==
    IF K = {} THEN 0
    ELSE LET k == CHOOSE x \in K : TRUE IN d[k] + CountSum(d, K \ {k})

(* the scan has returned and every listing returned *)
ScannedWhole == scan.pc = "done" /\ scan.failed = {}

(* C38: the scan's aggregates agree with the file index.  For every tree    *)
(* scanned without listing failures, siblings sharing a name or not, after  *)
(* the scan returns the number of entries of file_index is total_files,     *)
(* the sum of the sizes in file_index is total_size_bytes, and the sum of   *)
(* the counts of files_by_extension is total_files.                         *)
C38_AggregatesAgree ==
    ScannedWhole =>
       LET stats == scan.stats
       IN /\ Cardinality(DOMAIN stats.file_index) = stats.total_files
          /\ IndexBytes(stats.file_index, DOMAIN stats.file_index)
                = stats.total_size_bytes
          /\ CountSum(stats.files_by_extension,
                      DOMAIN stats.files_by_extension) = stats.total_files

(* the same, for a tree in which no two siblings share a name *)
C38_DistinctNames == ~scan.twin => C38_AggregatesAgree

(* the copy of a file or the creation of a subfolder failed somewhere *)
InterFailed == inter.failedFiles # {} \/ inter.failedFolders # {}

(* C39: failure is reported at the top.  In gdrive_interactive the          *)
(* top-level copy_folder_structure call returns False, so that main prints  *)
(* "Copy Process Completed with Errors", whenever the copy of a file or     *)
(* the creation of a subfolder failed anywhere in the tree, and it returns  *)
(* True only if every item was copied.                                      *)
C39_FailureReported ==
    inter.pc = "done" =>
       /\ InterFailed =>
             /\ ~inter.success
             /\ inter.banner = "Copy Process Completed with Errors"
       /\ inter.success => inter.copied = SrcFileIds

(* the part of C39 on a failed item: False is returned *)
C39_FailedItemReported ==
    (inter.pc = "done" /\ InterFailed) => ~inter.success

(* the same, for the creation of the root's folder alone *)
C39_RootCreateReported ==
    (inter.pc = "done" /\ SrcRoot \in inter.failedFolders)
       => ~inter.success /\ inter.banner = "Copy Process Completed with Errors"

====
